---- MODULE Spec2Model ----
(***************************************************************************)
(* A model of the alcohol-availability explorer (rhicksrad/Booze):         *)
(*   src/src/lib/csv.ts          the CSV loader and the DataModel indexes   *)
(*   src/src/views/percapita.ts  the per-capita view (crossover detector)   *)
(*   src/src/views/seasonality.ts  the seasonality heatmap, the long-run    *)
(*                               view and the beer-strength view            *)
(*                                                                         *)
(* JavaScript numbers are modelled as exact rationals [n, d] (d > 0);      *)
(* null is the record with d = 0 and NaN the record with n = 1, d = 0, so  *)
(* that "absent" and "0" are different values of one comparable type.      *)
(* JavaScript strings that the code inspects character by character are    *)
(* sequences of one-character strings.                                     *)
(***************************************************************************)
EXTENDS Integers, Sequences, FiniteSets, TLC

\* ------------------------------------------------------------------ bounds

\* longest Data_value cell text drawn for coerceNumber
MaxCellLen == 3
\* most rows of a CSV file
MaxRows == 3
\* most calls of loadData()
MaxLoadCalls == 3
\* most samples of a series handed to findCrossovers
MaxSamples == 3
\* most records handed to buildSeries of the long-run view
MaxPivotRecords == 4
\* most records handed to prepareCells of the seasonality view
MaxHeatRecords == 3
\* most records of the model the long-run view is mounted on
MaxViewRecords == 2
\* most points of a series handed to the smoothing functions
MaxSmoothLen == 5
\* most records handed to preparePoints of the spirits check
MaxSpiritsRecords == 3
\* most records drawn for aggregateRecords of the beer-strength view
MaxBarRecords == 3
\* most records of the model the application loads
MaxAppRecords == 2
\* most clicks on navigation buttons
MaxSelections == 2
\* most clicks on the legend items of one view instance
MaxLegendClicks == 1
\* most characters of the first label handed to slugify
MaxLabelLen == 3
\* most characters of the label it is compared with
MaxOtherLabelLen == 2
\* most clicks on the legend items of a view whose legend is followed alone
MaxLegendDepth == 6
\* the quarters of the records drawn for the views with a smoothing toggle
MaxQuarters == 2
\* the delay handed to debounce, in ticks of the clock
DebounceDelay == 2
\* most calls of a debounced function
MaxDebounceCalls == 3
\* the last tick of the clock
MaxTime == 8

\* ---------------------------------------------------------------- numbers

Abs(x) == IF x < 0 THEN -x ELSE x

RECURSIVE GCD(_, _)
GCD(a, b) == IF b = 0 THEN a ELSE GCD(b, a % b)

\* the number n/d in lowest terms (d # 0)
Rat(n, d) ==
  LET s == IF d < 0 THEN -1 ELSE 1
      g == GCD(Abs(n), Abs(d))
  IN  [n |-> (s * n) \div g, d |-> (s * d) \div g]

RInt(k) == [n |-> k, d |-> 1]
Zero == RInt(0)
One == RInt(1)

\* JavaScript null (an absent value)
Null == [n |-> 0, d |-> 0]
\* JavaScript NaN
NaN == [n |-> 1, d |-> 0]
\* the outcome of an expression that throws a TypeError
Threw == [n |-> 0, d |-> -1]

\* Number.isFinite
IsFinite(x) == x.d > 0

RAdd(a, b) == Rat(a.n * b.d + b.n * a.d, a.d * b.d)
RSub(a, b) == Rat(a.n * b.d - b.n * a.d, a.d * b.d)
RMul(a, b) == Rat(a.n * b.n, a.d * b.d)
\* a / b for b # 0
RDiv(a, b) == Rat(a.n * b.d, a.d * b.n)
RAbs(a) == [n |-> Abs(a.n), d |-> a.d]
RLess(a, b) == a.n * b.d < b.n * a.d

\* Math.floor
Floor(a) == a.n \div a.d
\* ToIntegerOrInfinity: truncation toward zero
Trunc(a) == IF a.n >= 0 THEN a.n \div a.d ELSE -((-a.n) \div a.d)

RECURSIVE Pow10(_)
Pow10(k) == IF k = 0 THEN 1 ELSE 10 * Pow10(k - 1)

\* Number(x.toFixed(digits)): the nearest multiple of 10^-digits, a tie going
\* to the larger magnitude
toFixed(x, digits) ==
  LET scaled == RMul(RAbs(x), RInt(Pow10(digits)))
      n == Floor(RAdd(scaled, Rat(1, 2)))
  IN  Rat(IF x.n < 0 THEN -n ELSE n, Pow10(digits))

\* ---------------------------------------------------------------- strings

\* a property that a raw row does not have (undefined)
Undef == <<"undefined">>

DigitChars == <<"0", "1", "2", "3", "4", "5", "6", "7", "8", "9">>
Digits == {DigitChars[i] : i \in 1..10}
DigitVal(c) == (CHOOSE i \in 1..10 : DigitChars[i] = c) - 1
WhiteSpace == {" "}

BoundedSeq(S, n) == UNION {[1..k -> S] : k \in 0..n}

RECURSIVE TrimStart(_)
TrimStart(s) ==
  IF s # <<>> /\ Head(s) \in WhiteSpace THEN TrimStart(Tail(s)) ELSE s

RECURSIVE TrimEnd(_)
TrimEnd(s) ==
  IF s # <<>> /\ s[Len(s)] \in WhiteSpace
  THEN TrimEnd(SubSeq(s, 1, Len(s) - 1)) ELSE s

\* String.prototype.trim
Trim(s) == TrimEnd(TrimStart(s))

RECURSIVE NatOf(_)
NatOf(ds) ==
  IF ds = <<>> THEN 0
  ELSE 10 * NatOf(SubSeq(ds, 1, Len(ds) - 1)) + DigitVal(ds[Len(ds)])

AllDigits(s) == \A i \in 1..Len(s) : s[i] \in Digits

\* the index of the first "." of s, or 0
DotIndex(s) ==
  IF \E i \in 1..Len(s) : s[i] = "."
  THEN CHOOSE i \in 1..Len(s) : s[i] = "." /\ \A j \in 1..(i - 1) : s[j] # "."
  ELSE 0

\* StrUnsignedDecimalLiteral over digits and ".": digits, digits. , digits.digits
\* and .digits are numbers; anything else is NaN
UnsignedNumber(s) ==
  LET dot == DotIndex(s)
      ip == IF dot = 0 THEN s ELSE SubSeq(s, 1, dot - 1)
      fp == IF dot = 0 THEN <<>> ELSE SubSeq(s, dot + 1, Len(s))
  IN  IF AllDigits(ip) /\ AllDigits(fp) /\ Len(ip) + Len(fp) > 0
      THEN Rat(NatOf(ip) * Pow10(Len(fp)) + NatOf(fp), Pow10(Len(fp)))
      ELSE NaN

\* Number(string) for strings over digits, ".", "+", "-", white space and
\* letters that start no numeric literal: white space is trimmed, the empty
\* string is 0, a signed decimal literal is its value, anything else NaN
NumberOf(s) ==
  LET t == Trim(s)
  IN  IF t = <<>> THEN Zero
      ELSE IF Head(t) = "-"
      THEN LET u == UnsignedNumber(Tail(t))
           IN  IF IsFinite(u) THEN Rat(-u.n, u.d) ELSE NaN
      ELSE IF Head(t) = "+" THEN UnsignedNumber(Tail(t))
      ELSE UnsignedNumber(t)

\* ------------------------------------------------------------ coerceNumber

\* what calling a string method on undefined gives: a TypeError
ThrewText == <<"TypeError">>

\* value.trim(): a TypeError when value is undefined
JsTrim(value) == IF value = Undef THEN ThrewText ELSE Trim(value)

\* coerceNumber with the empty-string test left out
coerceNumberNoEmptyTest(value) ==
  IF value = Undef THEN Null
  ELSE LET trimmed == JsTrim(value)
           numeric == NumberOf(trimmed)
       IN  IF trimmed = ThrewText THEN Threw
           ELSE IF trimmed = <<".", ".">> THEN Null
           ELSE IF IsFinite(numeric) THEN numeric ELSE Null

coerceNumber(value) ==
  IF value = Undef THEN Null
  ELSE LET trimmed == JsTrim(value)
           numeric == NumberOf(trimmed)
       IN  IF trimmed = ThrewText THEN Threw
           ELSE IF trimmed = <<>> \/ trimmed = <<".", ".">> THEN Null
           ELSE IF IsFinite(numeric) THEN numeric ELSE Null

\* ---------------------------------------------------------------- slugify

UpperChars == <<"A", "B", "C", "D", "E", "F", "G", "H", "I", "J", "K", "L", "M",
                "N", "O", "P", "Q", "R", "S", "T", "U", "V", "W", "X", "Y", "Z">>
LowerChars == <<"a", "b", "c", "d", "e", "f", "g", "h", "i", "j", "k", "l", "m",
                "n", "o", "p", "q", "r", "s", "t", "u", "v", "w", "x", "y", "z">>
Uppers == {UpperChars[i] : i \in 1..26}
Lowers == {LowerChars[i] : i \in 1..26}

LowerOf(c) ==
  IF c \in Uppers THEN LowerChars[CHOOSE i \in 1..26 : UpperChars[i] = c] ELSE c

\* String.prototype.toLowerCase
ToLowerCase(s) == [i \in 1..Len(s) |-> LowerOf(s[i])]

\* [a-z0-9]
IsSlugChar(c) == c \in Lowers \cup Digits

\* replace(/[^a-z0-9]+/g, '-'): every maximal run of other characters
\* becomes one hyphen
RECURSIVE ReplaceRuns(_)
ReplaceRuns(s) ==
  IF s = <<>> THEN <<>>
  ELSE IF IsSlugChar(Head(s)) THEN <<Head(s)>> \o ReplaceRuns(Tail(s))
  ELSE IF Len(s) > 1 /\ ~IsSlugChar(s[2]) THEN ReplaceRuns(Tail(s))
  ELSE <<"-">> \o ReplaceRuns(Tail(s))

RECURSIVE StripLeadingHyphens(_)
StripLeadingHyphens(s) ==
  IF s # <<>> /\ Head(s) = "-" THEN StripLeadingHyphens(Tail(s)) ELSE s

RECURSIVE StripTrailingHyphens(_)
StripTrailingHyphens(s) ==
  IF s # <<>> /\ s[Len(s)] = "-"
  THEN StripTrailingHyphens(SubSeq(s, 1, Len(s) - 1)) ELSE s

\* replace(/^-+|-+$/g, '')
StripHyphens(s) == StripTrailingHyphens(StripLeadingHyphens(s))

\* replace(/-{2,}/g, '-')
RECURSIVE CollapseHyphens(_)
CollapseHyphens(s) ==
  IF s = <<>> THEN <<>>
  ELSE IF Head(s) = "-" /\ Len(s) > 1 /\ s[2] = "-" THEN CollapseHyphens(Tail(s))
  ELSE <<Head(s)>> \o CollapseHyphens(Tail(s))

\* slugify with the second replace left out: outer hyphens stay
slugifyUnstripped(value) ==
  CollapseHyphens(ReplaceRuns(ToLowerCase(value)))

slugify(value) ==
  CollapseHyphens(StripHyphens(ReplaceRuns(ToLowerCase(value))))

\* ------------------------------------------------------- record normalizer

MONTH_MAP(token) ==
  CASE token = <<"M", "a", "r">> -> 3
    [] token = <<"J", "u", "n">> -> 6
    [] token = <<"S", "e", "p">> -> 9
    [] token = <<"D", "e", "c">> -> 12
    [] OTHER -> 0

\* a ?? b
Coalesce(a, b) == IF a = Undef THEN b ELSE a

\* slice(0, 3)
Slice3(s) == SubSeq(s, 1, IF Len(s) < 3 THEN Len(s) ELSE 3)

\* deriveMonth with || in place of ??: an empty cell falls through to the
\* next alias column
deriveMonthFirstFilled(row) ==
  LET Filled(a, b) == IF a = Undef \/ a = <<>> THEN b ELSE a
      monthToken ==
        Filled(row.Unnamed1,
          Filled(row.Blank, Filled(row.Month, Filled(row.Month_code, <<>>))))
      token == IF monthToken # <<>> THEN Slice3(Trim(monthToken)) ELSE <<>>
      month == MONTH_MAP(token)
  IN  IF month = 0 THEN 12 ELSE month

deriveMonth(row) ==
  LET monthToken ==
        Coalesce(row.Unnamed1,
          Coalesce(row.Blank, Coalesce(row.Month, Coalesce(row.Month_code, <<>>))))
      token == IF monthToken # <<>> THEN Slice3(Trim(monthToken)) ELSE <<>>
      month == MONTH_MAP(token)
  IN  IF month = 0 THEN 12 ELSE month

\* period.split('.')[0]
BeforeDot(s) == IF DotIndex(s) = 0 THEN s ELSE SubSeq(s, 1, DotIndex(s) - 1)

\* the year as a rational: Math.floor of the period read as a number, else
\* the part before the first "." read as a number, else 0
deriveYear(period) ==
  LET numeric == NumberOf(period)
      candidate == NumberOf(BeforeDot(period))
  IN  IF IsFinite(numeric) THEN RInt(Floor(numeric))
      ELSE IF IsFinite(candidate) THEN candidate ELSE Zero

MaxOf(a, b) == IF a > b THEN a ELSE b

\* new Date(year, monthIndex, 1) as the number of months since year 0 of its
\* local first-of-month: the order of these numbers is the order of getTime().
\* The Date constructor reads a year of 0..99 as 1900 + year and truncates a
\* fractional year.
DateOfYearMonth(year, monthIndex) ==
  LET y == Trunc(year)
      full == IF y >= 0 /\ y <= 99 THEN 1900 + y ELSE y
  IN  full * 12 + monthIndex

ensureDate(year, month) == DateOfYearMonth(year, MaxOf(0, month - 1))

UnknownGroup == <<"U", "n", "k", "n", "o", "w", "n", " ", "g", "r", "o", "u", "p">>
UnknownSeries == <<"U", "n", "k", "n", "o", "w", "n", " ", "s", "e", "r", "i", "e", "s">>

\* the callback of rows.map in loadData
NormalizeRow(row) ==
  LET period == Coalesce(row.Period, <<>>)
      groupLabel == Coalesce(row.Group, UnknownGroup)
      seriesLabel == Coalesce(row.Series_title_1, UnknownSeries)
      year == deriveYear(period)
      month == deriveMonth(row)
  IN  [period |-> period,
       date |-> ensureDate(year, month),
       year |-> year,
       month |-> month,
       value |-> coerceNumber(row.Data_value),
       units |-> Coalesce(row.UNITS, <<>>),
       groupKey |-> slugify(groupLabel),
       groupLabel |-> groupLabel,
       seriesKey |->
         slugify(IF seriesLabel # <<>> THEN seriesLabel
                 ELSE groupLabel \o <<"-">> \o period),
       seriesLabel |-> seriesLabel]

\* the predicate of .filter with the trim left out: any character keeps a row
KeepRecordUntrimmed(record) == Len(record.seriesLabel) > 0

\* the predicate of .filter in loadData
KeepRecord(record) == Len(Trim(record.seriesLabel)) > 0

\* Array.prototype.sort with (a, b) => a.date - b.date: a stable sort, each
\* record going after the records whose date is not later than its own
RECURSIVE InsertByDate(_, _)
InsertByDate(sorted, record) ==
  IF sorted = <<>> THEN <<record>>
  ELSE IF sorted[Len(sorted)].date <= record.date THEN Append(sorted, record)
  ELSE Append(InsertByDate(SubSeq(sorted, 1, Len(sorted) - 1), record),
              sorted[Len(sorted)])

RECURSIVE SortFrom(_, _, _)
SortFrom(records, i, sorted) ==
  IF i > Len(records) THEN sorted
  ELSE SortFrom(records, i + 1, InsertByDate(sorted, records[i]))

\* the sort left out
SortByDateUnsorted(records) == records

SortByDate(records) == SortFrom(records, 1, <<>>)

\* -------------------------------------------------------------- buildMeta

EmptyMap == [k \in {} |-> <<>>]

\* the bucket re-created on every record instead of only when it is missing
BucketPushReset(map, key, record) ==
  IF key \in DOMAIN map THEN [map EXCEPT ![key] = <<record>>]
  ELSE map @@ (key :> <<record>>)

\* if (!map.has(key)) map.set(key, []); map.get(key)?.push(record)
BucketPush(map, key, record) ==
  IF key \in DOMAIN map THEN [map EXCEPT ![key] = Append(@, record)]
  ELSE map @@ (key :> <<record>>)

\* the state of buildMeta's forEach after the first i records
RECURSIVE MetaFold(_, _, _)
MetaFold(records, i, acc) ==
  IF i > Len(records) THEN acc
  ELSE LET record == records[i]
       IN  MetaFold(records, i + 1,
             [byGroup |-> BucketPush(acc.byGroup, record.groupKey, record),
              bySeries |-> BucketPush(acc.bySeries, record.seriesKey, record),
              groupUnits |->
                IF record.groupKey \in DOMAIN acc.groupUnits
                THEN [acc.groupUnits EXCEPT ![record.groupKey] = @ \cup {record.units}]
                ELSE acc.groupUnits @@ (record.groupKey :> {record.units}),
              seriesMeta |->
                IF record.seriesKey \in DOMAIN acc.seriesMeta THEN acc.seriesMeta
                ELSE acc.seriesMeta @@
                       (record.seriesKey :>
                          [key |-> record.seriesKey,
                           label |-> record.seriesLabel,
                           groupKey |-> record.groupKey,
                           groupLabel |-> record.groupLabel,
                           units |-> record.units]),
              years |-> acc.years \cup {record.year},
              months |-> acc.months \cup {record.month}])

\* the first record of the sequence with the group key (records.find)
FirstOfGroup(records, key) ==
  records[CHOOSE i \in 1..Len(records) :
            /\ records[i].groupKey = key
            /\ \A j \in 1..(i - 1) : records[j].groupKey # key]

\* buildMeta: the two indexes as maps from key to record sequence, the group
\* and series metadata as sets (the code returns them as lists ordered by
\* label), the year and month domains as sets (returned in ascending order)
buildMeta(records) ==
  LET acc == MetaFold(records, 1,
               [byGroup |-> EmptyMap, bySeries |-> EmptyMap,
                groupUnits |-> EmptyMap, seriesMeta |-> EmptyMap,
                years |-> {}, months |-> {}])
  IN  [byGroup |-> acc.byGroup,
       bySeries |-> acc.bySeries,
       groups |-> {[key |-> k,
                    label |-> FirstOfGroup(records, k).groupLabel,
                    units |-> acc.groupUnits[k]] : k \in DOMAIN acc.groupUnits},
       series |-> {acc.seriesMeta[k] : k \in DOMAIN acc.seriesMeta},
       years |-> acc.years,
       months |-> acc.months]

\* the callback of csv(...).then in loadData: rows to DataModel
BuildModel(rows) ==
  LET mapped == [i \in 1..Len(rows) |-> NormalizeRow(rows[i])]
      records == SortByDate(SelectSeq(mapped, KeepRecord))
      meta == buildMeta(records)
  IN  [records |-> records,
       byGroup |-> meta.byGroup,
       bySeries |-> meta.bySeries,
       groups |-> meta.groups,
       series |-> meta.series,
       years |-> meta.years,
       months |-> meta.months]

\* --------------------------------------------------------- findCrossovers

\* A SeriesPoint is [date, value]: date is getTime() in milliseconds, value a
\* number or null. A SeriesData is [label, values].

\* new Date(time).getTime(): the Date constructor clips a time value to a
\* whole number of milliseconds, truncating toward zero
NewDate(time) == Trunc(time)

\* the interpolation weight taken from the later difference
CrossRatioSwapped(prevDiff, currDiff) ==
  RDiv(RAbs(currDiff), RAdd(RAbs(prevDiff), RAbs(currDiff)))

\* ratio = |prevDiff| / (|prevDiff| + |currDiff|)
CrossRatio(prevDiff, currDiff) ==
  RDiv(RAbs(prevDiff), RAdd(RAbs(prevDiff), RAbs(currDiff)))

\* the sign test taken as prevDiff * currDiff <= 0
SegmentCrossLoose(prevA, currA, prevB, currB, labelA, labelB) ==
  LET prevDiff == RSub(prevA.value, prevB.value)
      currDiff == RSub(currA.value, currB.value)
  IN  IF prevDiff = Zero
      THEN <<[date |-> prevA.date, labelA |-> labelA, labelB |-> labelB,
              value |-> prevA.value]>>
      ELSE IF ~RLess(Zero, RMul(prevDiff, currDiff))
      THEN LET ratio == CrossRatio(prevDiff, currDiff)
           IN  <<[date |-> NewDate(RAdd(RInt(prevA.date),
                                     RMul(RInt(currA.date - prevA.date), ratio))),
                  labelA |-> labelA, labelB |-> labelB,
                  value |-> RAdd(prevA.value,
                                 RMul(RSub(currA.value, prevA.value), ratio))]>>
      ELSE <<>>

\* what the body of the index loop pushes for four present samples: nothing,
\* the exact coincidence at the earlier sample, or the interpolated crossing
SegmentCross(prevA, currA, prevB, currB, labelA, labelB) ==
  LET prevDiff == RSub(prevA.value, prevB.value)
      currDiff == RSub(currA.value, currB.value)
  IN  IF prevDiff = Zero
      THEN <<[date |-> prevA.date, labelA |-> labelA, labelB |-> labelB,
              value |-> prevA.value]>>
      ELSE IF RLess(RMul(prevDiff, currDiff), Zero)
      THEN LET ratio == CrossRatio(prevDiff, currDiff)
           IN  <<[date |-> NewDate(RAdd(RInt(prevA.date),
                                     RMul(RInt(currA.date - prevA.date), ratio))),
                  labelA |-> labelA, labelB |-> labelB,
                  value |-> RAdd(prevA.value,
                                 RMul(RSub(currA.value, prevA.value), ratio))]>>
      ELSE <<>>

\* One pass of the index loop (index is 1-based here: the samples index - 1
\* and index). The null tests short-circuit left to right; reading .value of
\* a sample that seriesB does not have is a TypeError, which ends the call.
ScanStep(seriesA, seriesB, index, acc) ==
  LET prevA == seriesA.values[index - 1]
      currA == seriesA.values[index]
  IN  IF prevA.value = Null \/ currA.value = Null THEN acc
      ELSE IF index - 1 > Len(seriesB.values) THEN [acc EXCEPT !.threw = TRUE]
      ELSE IF seriesB.values[index - 1].value = Null THEN acc
      ELSE IF index > Len(seriesB.values) THEN [acc EXCEPT !.threw = TRUE]
      ELSE IF seriesB.values[index].value = Null THEN acc
      ELSE [acc EXCEPT !.crossings =
              @ \o SegmentCross(prevA, currA, seriesB.values[index - 1],
                                seriesB.values[index], seriesA.label, seriesB.label)]

\* for (index = 1; index < seriesA.values.length; index += 1)
RECURSIVE ScanPair(_, _, _, _)
ScanPair(seriesA, seriesB, index, acc) ==
  IF acc.threw \/ index > Len(seriesA.values) THEN acc
  ELSE ScanPair(seriesA, seriesB, index + 1, ScanStep(seriesA, seriesB, index, acc))

\* for (i ...) for (j = i + 1 ...): the pairs in the order the loops visit them
RECURSIVE ScanPairs(_, _, _, _)
ScanPairs(series, i, j, acc) ==
  IF acc.threw \/ i > Len(series) THEN acc
  ELSE IF j > Len(series) THEN ScanPairs(series, i + 1, i + 2, acc)
  ELSE ScanPairs(series, i, j + 1, ScanPair(series[i], series[j], 2, acc))

\* only the pairs of the first series are scanned
findCrossoversFirstOnly(series) ==
  IF Len(series) < 2 THEN [threw |-> FALSE, crossings |-> <<>>]
  ELSE ScanPairs(SubSeq(series, 1, 2), 1, 2, [threw |-> FALSE, crossings |-> <<>>])

\* findCrossovers: [threw, crossings], the crossings in push order
findCrossovers(series) ==
  ScanPairs(series, 1, 2, [threw |-> FALSE, crossings |-> <<>>])

\* ---------------------------------------------------------------- smoothing

\* SMOOTH_WINDOW of the per-capita view and of the spirits check
SMOOTH_WINDOW == 4

\* values.reduce((sum, item) => sum + item, 0) over the positions from..to
RECURSIVE SumOfPresent(_, _, _)
SumOfPresent(values, from, to) ==
  IF from > to THEN Zero
  ELSE RAdd(IF values[from] = Null THEN Zero ELSE values[from],
            SumOfPresent(values, from + 1, to))

\* values.slice(start, index + 1).filter(not null).length
CountOfPresent(values, from, to) ==
  Cardinality({k \in from..to : values[k] # Null})

\* the window average with an absent value counted as a 0
SmoothAtZeroFilled(values, windowSize, index) ==
  LET start == MaxOf(1, index - windowSize + 1)
  IN  RDiv(SumOfPresent(values, start, index), RInt(index - start + 1))

\* the callback of values.map in smoothSeries, for the 1-based position
SmoothAt(values, windowSize, index) ==
  LET start == MaxOf(1, index - windowSize + 1)
      count == CountOfPresent(values, start, index)
  IN  IF count = 0 THEN values[index]
      ELSE RDiv(SumOfPresent(values, start, index), RInt(count))

\* smoothSeries of the spirits check, on a sequence of values
smoothSeries(values, windowSize) ==
  IF windowSize <= 1 THEN values
  ELSE [index \in 1..Len(values) |-> SmoothAt(values, windowSize, index)]

\* smoothValues of the per-capita view, on a sequence of [date, value]
smoothValues(values, windowSize) ==
  IF windowSize <= 1 THEN values
  ELSE LET numbers == [k \in 1..Len(values) |-> values[k].value]
       IN  [index \in 1..Len(values) |->
              [date |-> values[index].date,
               value |-> SmoothAt(numbers, windowSize, index)]]

\* ---------------------------------------------------- the long-run view

\* In the views a DataRecord is [groupLabel, seriesLabel, year, month, date,
\* value]: the views compare labels for equality only, so a label is one
\* string there; date is months since year 0, as ensureDate gives it.

\* SERIES_LABELS and GROUP_LABELS of the long-run view
LongRunLabels == <<"Total beer", "Total wine", "Total spirits">>
LongRunGroups == <<"Litres of Beverage", "Litres of Alcohol">>

\* keyForLabel on the labels of the long-run view
LongRunKey(label) ==
  CASE label = "Total beer" -> "total-beer"
    [] label = "Total wine" -> "total-wine"
    [] label = "Total spirits" -> "total-spirits"

LongRunKeys == {LongRunKey(LongRunLabels[i]) : i \in 1..Len(LongRunLabels)}

collectGroupData(records, groupLabel) ==
  SelectSeq(records, LAMBDA record : record.groupLabel = groupLabel)

\* `${record.year}-${record.month}`
PointKey(record) == <<record.year, record.month>>

\* the body of the inner forEach of buildSeries for one record: the point of
\* the record's year and month is created if missing; a present value is
\* added to its total and stored as the share numerator of the series
PivotRecord(points, record, labels) ==
  LET key == PointKey(record)
      created ==
        IF key \in DOMAIN points THEN points
        ELSE points @@
               (key :> [date |-> record.date, total |-> Zero,
                        shares |-> [k \in {LongRunKey(labels[i]) : i \in 1..Len(labels)}
                                      |-> Zero]])
  IN  IF record.value = Null THEN created
      ELSE [created EXCEPT
              ![key].total = RAdd(@, record.value),
              ![key].shares[LongRunKey(record.seriesLabel)] = record.value]

\* records.filter(seriesLabel === label).forEach(...)
RECURSIVE PivotLabel(_, _, _, _, _)
PivotLabel(points, records, i, label, labels) ==
  IF i > Len(records) THEN points
  ELSE PivotLabel(IF records[i].seriesLabel = label
                  THEN PivotRecord(points, records[i], labels) ELSE points,
                  records, i + 1, label, labels)

\* labels.forEach(...)
RECURSIVE PivotLabels(_, _, _, _)
PivotLabels(points, records, l, labels) ==
  IF l > Len(labels) THEN points
  ELSE PivotLabels(PivotLabel(points, records, 1, labels[l], labels),
                   records, l + 1, labels)

\* Array.from(points.values()).sort by date: the points of one year and month
\* share a date and distinct points have distinct dates (years above 99)
RECURSIVE PointsByDate(_, _)
PointsByDate(points, keys) ==
  IF keys = {} THEN <<>>
  ELSE LET first == CHOOSE k \in keys : \A o \in keys : points[k].date <= points[o].date
       IN  <<points[first]>> \o PointsByDate(points, keys \ {first})

\* orderedPoints.forEach: shares become fractions of the total, or 0 for
\* every series when the total is 0
NormalizePoint(point) ==
  IF point.total = Zero
  THEN [point EXCEPT !.shares = [k \in DOMAIN point.shares |-> Zero]]
  ELSE [point EXCEPT !.shares = [k \in DOMAIN point.shares |->
                                   RDiv(point.shares[k], point.total)]]

\* buildSeries of the long-run view: [series, points]
buildSeries(records, labels) ==
  LET points == PivotLabels(EmptyMap, records, 1, labels)
      ordered == PointsByDate(points, DOMAIN points)
      orderedPoints == [n \in 1..Len(ordered) |-> NormalizePoint(ordered[n])]
  IN  [series |->
         [l \in 1..Len(labels) |->
            [key |-> LongRunKey(labels[l]),
             label |-> labels[l],
             values |->
               [n \in 1..Len(orderedPoints) |->
                  [date |-> orderedPoints[n].date,
                   value |->
                     IF orderedPoints[n].total = Zero THEN Null
                     ELSE RMul(orderedPoints[n].shares[LongRunKey(labels[l])],
                               orderedPoints[n].total)]]]],
       points |-> orderedPoints]

\* Date.getFullYear and Date.getMonth on a first-of-month date
GetFullYear(date) == date \div 12
GetMonth(date) == date % 12

\* createExportRows of the long-run view with a model: one row per point,
\* with a share column for each active series
createExportRows(records, group, activeKeys) ==
  LET filtered == collectGroupData(records, group)
      points == buildSeries(filtered, LongRunLabels).points
  IN  [n \in 1..Len(points) |->
         [year |-> GetFullYear(points[n].date),
          month |-> GetMonth(points[n].date) + 1,
          total_litres |-> toFixed(points[n].total, 3),
          shares |-> [key \in LongRunKeys \cap activeKeys |->
                        toFixed(points[n].shares[key], 4)]]]

\* max(activeSeries.flatMap((s) => s.values.map((v) => v.value ?? 0))) ?? 0
MaxSeriesValue(activeSeries) ==
  LET flat == UNION {{IF activeSeries[s].values[n].value = Null THEN Zero
                       ELSE activeSeries[s].values[n].value :
                         n \in 1..Len(activeSeries[s].values)} :
                      s \in 1..Len(activeSeries)}
  IN  IF flat = {} THEN Zero
      ELSE CHOOSE x \in flat : \A o \in flat : ~RLess(x, o)

\* what render of the long-run view draws with a shell and a model: a line
\* per active series on a litres axis up to yMax, and of the share areas
\* stacked over all the series of the points, those of the active keys
LongRunChart(records, group, activeKeys) ==
  LET filtered == collectGroupData(records, group)
      built == buildSeries(filtered, LongRunLabels)
      activeSeries == SelectSeq(built.series, LAMBDA item : item.key \in activeKeys)
      maxValue == MaxSeriesValue(activeSeries)
      stackKeys == [l \in 1..Len(built.series) |-> built.series[l].key]
  IN  [lines |-> activeSeries,
       yMax |-> IF maxValue = Zero THEN One ELSE maxValue,
       stacked |-> built.points,
       areas |-> SelectSeq(stackKeys, LAMBDA key : key \in activeKeys)]

\* a chart element with nothing drawn in it
NoChart == [lines |-> <<>>, yMax |-> One, stacked |-> <<>>, areas |-> <<>>]

\* keyForLabel on the group labels, for the download file name
GroupKey(group) ==
  CASE group = "Litres of Beverage" -> "litres-of-beverage"
    [] group = "Litres of Alcohol" -> "litres-of-alcohol"

\* ---------------------------------------------------- the seasonality view

\* defaultGroup and defaultSeries
defaultGroup == "Litres of Beverage"
defaultSeries == "Beer"

\* const months = [3, 6, 9, 12]
HeatmapMonths == <<3, 6, 9, 12>>

\* the body of filtered.forEach of prepareCells: a present value is added to
\* the sum of its year and month, an absent one is skipped
AddToYear(byYear, record) ==
  IF record.value = Null THEN byYear
  ELSE LET withYear ==
             IF record.year \in DOMAIN byYear THEN byYear
             ELSE byYear @@ (record.year :> EmptyMap)
           inner == withYear[record.year]
           sum == IF record.month \in DOMAIN inner THEN inner[record.month] ELSE Zero
       IN  [withYear EXCEPT
              ![record.year] = (record.month :> RAdd(sum, record.value)) @@ inner]

RECURSIVE AddAllToYear(_, _, _)
AddAllToYear(byYear, records, i) ==
  IF i > Len(records) THEN byYear
  ELSE AddAllToYear(AddToYear(byYear, records[i]), records, i + 1)

\* Array.from(inner.values()).reduce((sum, value) => sum + value, 0)
RECURSIVE YearTotal(_, _)
YearTotal(inner, months) ==
  IF months = {} THEN Zero
  ELSE LET m == CHOOSE x \in months : TRUE
       IN  RAdd(inner[m], YearTotal(inner, months \ {m}))

\* Array.from(byYear.keys()).sort((a, b) => a - b)
RECURSIVE YearsAscending(_)
YearsAscending(years) ==
  IF years = {} THEN <<>>
  ELSE LET y == CHOOSE x \in years : \A o \in years : x <= o
       IN  <<y>> \o YearsAscending(years \ {y})

\* the body of years.forEach of prepareCells: one cell per heatmap month
CellsOfYear(byYear, year, normalize) ==
  LET inner == byYear[year]
      total == YearTotal(inner, DOMAIN inner)
  IN  [m \in 1..Len(HeatmapMonths) |->
         LET month == HeatmapMonths[m]
             value == IF month \in DOMAIN inner THEN inner[month] ELSE Null
         IN  [year |-> year,
              month |-> month,
              value |->
                IF normalize
                THEN IF total = Zero \/ value = Null THEN Null ELSE RDiv(value, total)
                ELSE value]]

RECURSIVE CellsOfYears(_, _, _, _)
CellsOfYears(byYear, years, i, normalize) ==
  IF i > Len(years) THEN <<>>
  ELSE CellsOfYear(byYear, years[i], normalize)
         \o CellsOfYears(byYear, years, i + 1, normalize)

prepareCells(records, groupLabel, seriesLabel, normalize) ==
  LET filtered ==
        SelectSeq(records, LAMBDA record :
          record.groupLabel = groupLabel /\ record.seriesLabel = seriesLabel)
      byYear == AddAllToYear(EmptyMap, filtered, 1)
  IN  CellsOfYears(byYear, YearsAscending(DOMAIN byYear), 1, normalize)

\* --------------------------------------------------- the beer-strength view

\* CATEGORY_LABELS and GROUP_LABEL of the beer-strength view
CATEGORY_LABELS ==
  <<"Beer containing not more than 1.150% alcohol",
    "Beer containing between 1.151% and 2.500% alc",
    "Beer containing between 2.501% and 4.350% alc",
    "Beer containing between 4.351% and 5.000% alc",
    "Beer containing more than 5.00% alcohol">>
BeerGroup == "Litres of Beverage"

\* keyForLabel on the category labels
CategoryKey(label) ==
  CASE label = CATEGORY_LABELS[1] -> "beer-containing-not-more-than-1-150-alcohol"
    [] label = CATEGORY_LABELS[2] -> "beer-containing-between-1-151-and-2-500-alc"
    [] label = CATEGORY_LABELS[3] -> "beer-containing-between-2-501-and-4-350-alc"
    [] label = CATEGORY_LABELS[4] -> "beer-containing-between-4-351-and-5-000-alc"
    [] label = CATEGORY_LABELS[5] -> "beer-containing-more-than-5-00-alcohol"

CategoryKeys == {CategoryKey(CATEGORY_LABELS[i]) : i \in 1..Len(CATEGORY_LABELS)}

\* CATEGORY_LABELS.includes(label)
IsCategory(label) == \E i \in 1..Len(CATEGORY_LABELS) : CATEGORY_LABELS[i] = label

\* `${n}` for a whole number n >= 0: its decimal digits
RECURSIVE DigitsOf(_)
DigitsOf(n) ==
  IF n < 10 THEN <<DigitChars[n + 1]>>
  ELSE Append(DigitsOf(n \div 10), DigitChars[(n % 10) + 1])

\* groupKey of a record: `${Math.floor(year / 10) * 10}s` or `${year}`
BarKey(year, byDecade) ==
  IF byDecade THEN Append(DigitsOf((year \div 10) * 10), "s") ELSE DigitsOf(year)

\* groupKey.slice(0, -1)
SliceOffLast(text) == SubSeq(text, 1, Len(text) - 1)

\* the label of a new bar
BarLabel(groupKey, byDecade) ==
  IF byDecade
  THEN SliceOffLast(groupKey) \o <<"-">> \o DigitsOf(NatOf(SliceOffLast(groupKey)) + 9)
  ELSE groupKey

\* the body of filtered.forEach of aggregateRecords without the test of the
\* active keys
BarOfRecordAnyKey(bars, record, byDecade, activeKeys) ==
  IF ~IsCategory(record.seriesLabel) \/ record.value = Null THEN bars
  ELSE LET groupKey == BarKey(record.year, byDecade)
           categoryKey == CategoryKey(record.seriesLabel)
           created ==
             IF groupKey \in DOMAIN bars THEN bars
             ELSE bars @@
                    (groupKey :>
                       [key |-> groupKey, label |-> BarLabel(groupKey, byDecade),
                        total |-> Zero, values |-> [k \in CategoryKeys |-> Zero]])
       IN  [created EXCEPT
              ![groupKey].total = RAdd(@, record.value),
              ![groupKey].values[categoryKey] = RAdd(@, record.value)]

\* the body of filtered.forEach of aggregateRecords: a record of a category,
\* with a present value and an active key, is added to the bar of its year
\* or decade, which is created if missing
BarOfRecord(bars, record, byDecade, activeKeys) ==
  IF ~IsCategory(record.seriesLabel) \/ record.value = Null THEN bars
  ELSE IF CategoryKey(record.seriesLabel) \notin activeKeys THEN bars
  ELSE LET groupKey == BarKey(record.year, byDecade)
           categoryKey == CategoryKey(record.seriesLabel)
           created ==
             IF groupKey \in DOMAIN bars THEN bars
             ELSE bars @@
                    (groupKey :>
                       [key |-> groupKey, label |-> BarLabel(groupKey, byDecade),
                        total |-> Zero, values |-> [k \in CategoryKeys |-> Zero]])
       IN  [created EXCEPT
              ![groupKey].total = RAdd(@, record.value),
              ![groupKey].values[categoryKey] = RAdd(@, record.value)]

RECURSIVE BarsOfRecords(_, _, _, _, _)
BarsOfRecords(bars, records, i, byDecade, activeKeys) ==
  IF i > Len(records) THEN bars
  ELSE BarsOfRecords(BarOfRecord(bars, records[i], byDecade, activeKeys),
                     records, i + 1, byDecade, activeKeys)

\* the position of a character of a bar key in the collation order:
\* digits before letters
KeyCharRank(c) == IF c \in Digits THEN DigitVal(c) ELSE 10

\* a.localeCompare(b) < 0 on bar keys
RECURSIVE KeyBefore(_, _)
KeyBefore(a, b) ==
  IF b = <<>> THEN FALSE
  ELSE IF a = <<>> THEN TRUE
  ELSE IF KeyCharRank(Head(a)) # KeyCharRank(Head(b))
  THEN KeyCharRank(Head(a)) < KeyCharRank(Head(b))
  ELSE KeyBefore(Tail(a), Tail(b))

\* Array.from(bars.values()).sort((a, b) => a.key.localeCompare(b.key))
RECURSIVE BarsByKey(_, _)
BarsByKey(bars, keys) ==
  IF keys = {} THEN <<>>
  ELSE LET first == CHOOSE k \in keys : \A o \in keys \ {k} : KeyBefore(k, o)
       IN  <<bars[first]>> \o BarsByKey(bars, keys \ {first})

\* the callback of ordered.forEach in share mode
ShareOfBar(bar) ==
  LET total == IF bar.total = Zero THEN One ELSE bar.total
  IN  [bar EXCEPT !.values = [k \in DOMAIN bar.values |-> RDiv(bar.values[k], total)],
                  !.total = One]

aggregateRecords(records, byDecade, share, activeKeys) ==
  LET filtered == SelectSeq(records, LAMBDA record : record.groupLabel = BeerGroup)
      bars == BarsOfRecords(EmptyMap, filtered, 1, byDecade, activeKeys)
      ordered == BarsByKey(bars, DOMAIN bars)
  IN  IF share THEN [n \in 1..Len(ordered) |-> ShareOfBar(ordered[n])] ELSE ordered

\* ------------------------------------------------------- the spirits check

\* In the spirits check a DataRecord is [groupLabel, seriesLabel, period,
\* date, units, value]: period and units are compared for equality only.

\* GROUP_LABEL and SERIES_LABEL of the spirits check
SpiritsGroup == "(DISC) Volume & Volume Per Head"
SpiritsSeries == "Spirits"

\* a / b of two numbers: a non-finite number when b is 0
JsDivide(a, b) == IF b = Zero THEN NaN ELSE RDiv(a, b)

\* the ratio without the test of the denominator
PointRatioUnguarded(point) ==
  IF point.litres # Null /\ point.proof # Null
  THEN JsDivide(point.litres, point.proof) ELSE Null

\* the callback of points.forEach in preparePoints
PointRatio(point) ==
  IF point.litres # Null /\ point.proof # Null /\ point.proof # Zero
  THEN JsDivide(point.litres, point.proof) ELSE Null

\* the callback of relevant.forEach in preparePoints: the point of the
\* period is created if missing, and takes the value of a Litres record as
\* its litres and of a ProofL record as its proof
PointOfRecord(byPeriod, record) ==
  LET created ==
        IF record.period \in DOMAIN byPeriod THEN byPeriod
        ELSE byPeriod @@
               (record.period :>
                  [date |-> record.date, period |-> record.period,
                   litres |-> Null, proof |-> Null, ratio |-> Null])
  IN  IF record.units = "Litres"
      THEN [created EXCEPT ![record.period].litres = record.value]
      ELSE IF record.units = "ProofL"
      THEN [created EXCEPT ![record.period].proof = record.value]
      ELSE created

RECURSIVE PointsOfRecords(_, _, _)
PointsOfRecords(byPeriod, records, i) ==
  IF i > Len(records) THEN byPeriod
  ELSE PointsOfRecords(PointOfRecord(byPeriod, records[i]), records, i + 1)

\* preparePoints: the points of the periods in ascending date order (the
\* points of distinct periods have distinct dates), each with its ratio
preparePoints(records) ==
  LET relevant ==
        SelectSeq(records, LAMBDA record :
          record.groupLabel = SpiritsGroup /\ record.seriesLabel = SpiritsSeries)
      byPeriod == PointsOfRecords(EmptyMap, relevant, 1)
      points == PointsByDate(byPeriod, DOMAIN byPeriod)
  IN  [n \in 1..Len(points) |-> [points[n] EXCEPT !.ratio = PointRatio(points[n])]]

\* the days of a month of a year (month 1..12)
DaysInMonth(year, month) ==
  IF month = 2
  THEN IF year % 4 = 0 /\ (year % 100 # 0 \/ year % 400 = 0) THEN 29 ELSE 28
  ELSE IF month \in {4, 6, 9, 11} THEN 30 ELSE 31

\* date.toISOString().slice(0, 10) of a local first-of-month date, as
\* [year, month, day]: the UTC day, which is the day before where local time
\* is ahead of UTC
IsoDay(date, aheadOfUtc) ==
  LET year == GetFullYear(date)
      month == GetMonth(date) + 1
  IN  IF ~aheadOfUtc THEN [year |-> year, month |-> month, day |-> 1]
      ELSE IF month = 1 THEN [year |-> year - 1, month |-> 12, day |-> 31]
      ELSE [year |-> year, month |-> month - 1,
            day |-> DaysInMonth(year, month - 1)]

\* value === null ? null : Number(value.toFixed(digits))
FixedOrNull(value, digits) == IF value = Null THEN Null ELSE toFixed(value, digits)

\* exportRows of the spirits check on its points
SpiritsExportRows(points, aheadOfUtc) ==
  [n \in 1..Len(points) |->
     [date |-> IsoDay(points[n].date, aheadOfUtc),
      litres |-> FixedOrNull(points[n].litres, 3),
      proof |-> FixedOrNull(points[n].proof, 3),
      ratio |-> FixedOrNull(points[n].ratio, 3)]]

\* ------------------------------------------------------------------ inputs

\* characters of the Data_value cells drawn for coerceNumber
CellChars == {" ", ".", "0", "5", "-", "a"}

\* the characters of the labels handed to slugify: a letter in both cases, a
\* digit, and two characters outside [a-z0-9], the hyphen among them
LabelChars == {"A", "a", "0", "-", " "}
CellTexts == BoundedSeq(CellChars, MaxCellLen) \cup {Undef}

RawRow(period, group, series, value, units, unnamed1, blank, month, code) ==
  [Period |-> period, Group |-> group, Series_title_1 |-> series,
   Data_value |-> value, UNITS |-> units, Unnamed1 |-> unnamed1,
   Blank |-> blank, Month |-> month, Month_code |-> code]

Mar == <<"M", "a", "r">>
Jun == <<"J", "u", "n">>
Sep == <<"S", "e", "p">>
Dec == <<"D", "e", "c">>

\* the arguments the debounced function is called with
DebounceArgs == {"first", "second"}

\* The cells of the month alias columns: a missing and an empty cell, the
\* abbreviations, a longer month name, a name after white space, a name in
\* lower case and a blank cell
MonthCells ==
  {Undef, <<>>, Mar, Sep, Dec, <<"J", "u", "n", "e">>, <<" ", "M", "a", "r">>,
   <<"m", "a", "r">>, <<" ">>}

\* The raw rows a CSV file is drawn from: labels that differ only in case or
\* punctuation, an empty, a blank and a missing series label, missing and
\* unparseable periods, a year above 99, each month alias column, and
\* Data_value cells that are numbers, "..", empty and missing.
RowPool ==
  { RawRow(<<"2">>, <<"G">>, <<"A", "b">>, <<"5">>, <<"L">>, Mar, Undef, Undef, Undef),
    RawRow(<<"1">>, <<"G">>, <<"a", "b">>, <<".", ".">>, <<"L">>, Dec, Undef, Undef, Undef),
    RawRow(<<"2">>, <<"H">>, <<"W">>, <<>>, <<"P">>, Undef, Undef, Jun, Undef),
    RawRow(<<"1", ".", "5">>, <<"G">>, <<" ">>, <<"0">>, <<"L">>, Undef, Sep, Undef, Undef),
    RawRow(<<"a">>, Undef, Undef, <<"-", "5">>, Undef, Undef, Undef, Undef, Undef),
    RawRow(<<"1", "0", "0">>, <<"g", "-">>, <<"W">>, <<"5">>, <<"L">>, Undef, Undef, Undef, Sep),
    RawRow(Undef, <<"H">>, <<>>, <<"5">>, <<"L">>, Mar, Undef, Undef, Undef),
    RawRow(<<"1">>, <<"H">>, <<"W">>, Undef, <<"L">>, <<" ", "D", "e", "c", "e">>, Undef, Undef, Undef) }

\* SERIES_LABELS of the per-capita view
PerCapitaLabels == <<"Beer Per Head", "Wine Per Head", "Spirits Per Head">>

\* the sample values drawn for findCrossovers
CrossValues == {Null, RInt(1), RInt(2), RInt(3)}

\* The shared time axis of the series, in milliseconds: consecutive
\* milliseconds from 0, or widening steps that start before 1970.
AxisTime(axis, k) == IF axis = "unit" THEN k - 1 ELSE k * k - 4
Axes == {"unit", "wide"}

\* n time-aligned series of len samples each with the values v[s][k]
SeriesOf(n, len, axis, v) ==
  [s \in 1..n |->
     [label |-> PerCapitaLabels[s],
      values |-> [k \in 1..len |-> [date |-> AxisTime(axis, k), value |-> v[s][k]]]]]

\* a record of the views
ViewRecord(groupLabel, seriesLabel, year, month, value) ==
  [groupLabel |-> groupLabel, seriesLabel |-> seriesLabel, year |-> year,
   month |-> month, date |-> ensureDate(RInt(year), month), value |-> value]

\* the values of the records drawn for the views
ViewValues == {Null, Zero, RInt(1), RInt(2)}

\* the records of one measurement group drawn for buildSeries: each series
\* of the long-run view at two quarters, absent, zero or positive
PivotPool ==
  {ViewRecord(LongRunGroups[1], LongRunLabels[l], 2000, month, value) :
     l \in 1..3, month \in {3, 6}, value \in ViewValues}

\* the records drawn for prepareCells: two series of the default group at two
\* quarters of two years, absent, zero, positive or negative, and a record of
\* the other group
HeatPool ==
  {ViewRecord(defaultGroup, series, year, month, value) :
     series \in {defaultSeries, "Wine"}, year \in {2000, 2001}, month \in {3, 6},
     value \in {Null, Zero, RInt(1), RInt(-1)}}
    \cup {ViewRecord(LongRunGroups[2], defaultSeries, 2000, 3, RInt(2))}

\* the records of the model the long-run view is mounted on: each series of
\* the first group at one quarter, absent or positive, and a record of the
\* second group
LongRunPool ==
  {ViewRecord(LongRunGroups[1], LongRunLabels[l], 2000, 3, value) :
     l \in 1..3, value \in {Null, RInt(1)}}
    \cup {ViewRecord(LongRunGroups[2], LongRunLabels[1], 2000, 3, RInt(2))}

\* the values drawn for the smoothing functions
SmoothValues == {Null, Zero, RInt(1), RInt(2)}

\* the date of the k-th point of a quarterly series
QuarterDate(k) == ensureDate(RInt(2000), 3) + 3 * (k - 1)

\* a record of the spirits check, of a quarter of the year 2000
SpiritsRecord(seriesLabel, month, units, value) ==
  [groupLabel |-> SpiritsGroup, seriesLabel |-> seriesLabel,
   period |-> <<2000, month>>, date |-> ensureDate(RInt(2000), month),
   units |-> units, value |-> value]

\* the records drawn for preparePoints: litres and proof litres of spirits at
\* two quarters, absent, zero or positive, a record in another unit and a
\* record of another series
SpiritsPool ==
  {SpiritsRecord(SpiritsSeries, month, units, value) :
     month \in {3, 6}, units \in {"Litres", "ProofL"},
     value \in {Null, Zero, RInt(1), RInt(3)}}
    \cup {SpiritsRecord(SpiritsSeries, 3, "Number", RInt(1)),
          SpiritsRecord("Beer", 3, "Litres", RInt(1))}

\* the records drawn for aggregateRecords: the weakest and the strongest beer
\* category in three years of two decades, one of them before the year 1000,
\* absent or positive, a series that is no category and a record of another
\* group
BarPool ==
  {ViewRecord(BeerGroup, CATEGORY_LABELS[c], year, 3, value) :
     c \in {1, 5}, year \in {999, 2000, 2009}, value \in {Null, RInt(1), RInt(2)}}
    \cup {ViewRecord(BeerGroup, "Total beer", 2000, 3, RInt(1)),
          ViewRecord("Litres of Alcohol", CATEGORY_LABELS[1], 2000, 3, RInt(1))}

\* the four quarters of a year of one category, with the values 10, 20, 30, 40
FourQuarters(year, label) ==
  [q \in 1..4 |-> ViewRecord(BeerGroup, label, year, 3 * q, RInt(10 * q))]

\* ------------------------------------------------- per-capita view: series

\* GROUP_LABEL of the per-capita view
PerCapitaGroup == "(DISC) Volume & Volume Per Head"

\* keyForLabel on SERIES_LABELS of the per-capita view
PerCapitaKey(label) ==
  CASE label = "Beer Per Head" -> "beer-per-head"
    [] label = "Wine Per Head" -> "wine-per-head"
    [] label = "Spirits Per Head" -> "spirits-per-head"

\* collectSeries: for each label the [date, value] samples of its records in
\* the group, a new array that is then ordered by date
collectSeries(records) ==
  LET filtered == SelectSeq(records, LAMBDA record : record.groupLabel = PerCapitaGroup)
  IN  [l \in 1..Len(PerCapitaLabels) |->
         LET ofLabel == SelectSeq(filtered,
                          LAMBDA record : record.seriesLabel = PerCapitaLabels[l])
             values == [k \in 1..Len(ofLabel) |->
                          [date |-> ofLabel[k].date, value |-> ofLabel[k].value]]
         IN  [key |-> PerCapitaKey(PerCapitaLabels[l]),
              label |-> PerCapitaLabels[l],
              values |-> SortByDate(values)]]

\* buildSeries of the per-capita view with a model: cachedSeries, and whether
\* findCrossovers ended in a TypeError
PerCapitaBuild(records, smoothed) ==
  LET rawSeries == collectSeries(records)
      cachedSeries ==
        [s \in 1..Len(rawSeries) |->
           [rawSeries[s] EXCEPT !.values =
              IF smoothed THEN smoothValues(@, SMOOTH_WINDOW) ELSE @]]
  IN  [cachedSeries |-> cachedSeries, threw |-> findCrossovers(cachedSeries).threw]

\* exportRows of the per-capita view: one row per sample of the first cached
\* series, the values rounded to 3 digits
PerCapitaExportRows(cachedSeries) ==
  IF Len(cachedSeries) = 0 THEN <<>>
  ELSE [index \in 1..Len(cachedSeries[1].values) |->
          LET date == cachedSeries[1].values[index].date
          IN  [year |-> GetFullYear(date),
               month |-> GetMonth(date) + 1,
               values |->
                 [s \in 1..Len(cachedSeries) |->
                    IF index <= Len(cachedSeries[s].values)
                    THEN FixedOrNull(cachedSeries[s].values[index].value, 3)
                    ELSE Null]]]

\* ------------------------------------------- seasonality view: the selects

\* the order of localeCompare on the labels of the records drawn
LabelRank(label) ==
  CASE label = "(DISC) Volume & Volume Per Head" -> 0
    [] label = "Beer" -> 1
    [] label = CATEGORY_LABELS[1] -> 2
    [] label = "Beer Per Head" -> 3
    [] label = "Litres of Alcohol" -> 4
    [] label = "Litres of Beverage" -> 5
    [] label = "Spirits" -> 6
    [] label = "Total beer" -> 7
    [] label = "Wine Per Head" -> 8

\* the labels of a set in localeCompare order
LabelsInOrder(labels) ==
  CHOOSE ordered \in [1..Cardinality(labels) -> labels] :
    \A i, j \in 1..Cardinality(labels) :
      i < j => LabelRank(ordered[i]) < LabelRank(ordered[j])

\* the keys of buildSeriesLookup: the group labels in the order of their
\* first record
RECURSIVE LookupGroups(_)
LookupGroups(records) ==
  IF records = <<>> THEN <<>>
  ELSE LET before == LookupGroups(SubSeq(records, 1, Len(records) - 1))
           label == records[Len(records)].groupLabel
       IN  IF \E i \in 1..Len(before) : before[i] = label THEN before
           ELSE Append(before, label)

\* seriesLookup.get(group) ?? []: the series labels of a group, ordered
SeriesOptions(records, group) ==
  LabelsInOrder({records[i].seriesLabel :
                   i \in {j \in 1..Len(records) : records[j].groupLabel = group}})

\* init of the seasonality view: the selection falls back to a group and a
\* series that the lookup has
InitialSelection(records) ==
  LET groups == LookupGroups(records)
      selectedGroup ==
        IF \E i \in 1..Len(groups) : groups[i] = defaultGroup THEN defaultGroup
        ELSE IF Len(groups) > 0 THEN groups[1] ELSE defaultGroup
      seriesOptions == SeriesOptions(records, selectedGroup)
      selectedSeries ==
        IF (\A i \in 1..Len(seriesOptions) : seriesOptions[i] # defaultSeries)
             /\ Len(seriesOptions) > 0
        THEN seriesOptions[1] ELSE defaultSeries
  IN  [group |-> selectedGroup, series |-> selectedSeries]

\* exportRows of the seasonality view: the cached cells, rounded to 4 digits
\* when normalized and to 3 otherwise
HeatExportRows(cachedCells, normalize) ==
  [i \in 1..Len(cachedCells) |->
     [year |-> cachedCells[i].year, month |-> cachedCells[i].month,
      value |-> FixedOrNull(cachedCells[i].value, IF normalize THEN 4 ELSE 3)]]

\* exportRows of the beer-strength view with a model
BarExportRows(records, byDecade, asShare, activeKeys) ==
  LET bars == aggregateRecords(records, byDecade, asShare, activeKeys)
      digits == IF asShare THEN 4 ELSE 3
  IN  [b \in 1..Len(bars) |->
         [period |-> bars[b].label,
          total |-> toFixed(bars[b].total, digits),
          values |-> [key \in activeKeys |-> toFixed(bars[b].values[key], digits)]]]

\* ------------------------------------------------------ the view instances

\* the ids of the view registry, in the order of the navigation
ViewIds == <<"longrun", "percapita", "beerstrength", "seasonality", "spiritscheck">>

\* slugify on the labels of the records drawn for the application
AppSlug(label) ==
  CASE label = "Litres of Beverage" -> "litres-of-beverage"
    [] label = "(DISC) Volume & Volume Per Head" -> "disc-volume-volume-per-head"
    [] label = "Total beer" -> "total-beer"
    [] label = CATEGORY_LABELS[1] -> "beer-containing-not-more-than-1-150-alcohol"
    [] label = "Spirits" -> "spirits"
    [] label = "Beer Per Head" -> "beer-per-head"
    [] label = "Wine Per Head" -> "wine-per-head"
    [] label = "Spirits Per Head" -> "spirits-per-head"

\* a DataRecord of a quarter of the year 2000, as the loader's row callback
\* returns it
AppRecord(groupLabel, seriesLabel, month, units, value) ==
  [period |-> <<2000, month>>, date |-> ensureDate(RInt(2000), month),
   year |-> 2000, month |-> month, value |-> value, units |-> units,
   groupKey |-> AppSlug(groupLabel), groupLabel |-> groupLabel,
   seriesKey |-> AppSlug(seriesLabel), seriesLabel |-> seriesLabel]

\* the DataModel of a record sequence: the records and their metadata
ModelOfRecords(records) ==
  LET meta == buildMeta(records)
  IN  [records |-> records,
       byGroup |-> meta.byGroup,
       bySeries |-> meta.bySeries,
       groups |-> meta.groups,
       series |-> meta.series,
       years |-> meta.years,
       months |-> meta.months]

\* a view instance as its factory returns it: the variables of the closure
\* (flagA is smoothed, byDecade, normalize or smoothRatio; flagB is asShare;
\* group and series are the selections; cached is cachedSeries, cachedCells
\* or points), whether its resize listener is registered, whether the timer
\* of its debounced render is pending, and whether its legend is in the chart
createView(view) ==
  [view |-> view, model |-> "null", shell |-> FALSE,
   listener |-> FALSE, timer |-> FALSE,
   flagA |-> FALSE, flagB |-> FALSE,
   activeKeys |-> CASE view = "longrun" -> LongRunKeys
                    [] view = "beerstrength" -> CategoryKeys
                    [] OTHER -> {},
   group |-> CASE view = "longrun" -> LongRunGroups[1]
               [] view = "seasonality" -> defaultGroup
               [] OTHER -> "",
   series |-> IF view = "seasonality" THEN defaultSeries ELSE "",
   cached |-> <<>>, legend |-> FALSE, clicks |-> 0]

\* the record array of the model emptied by the view that reads it
RecordsSpliced(records) == <<>>

\* The record array of the model after a view has read it: the views apply
\* filter, forEach and find to model.records, which build new arrays and
\* leave their receiver as it is; they sort the arrays they built and assign
\* no field of a record.
RecordsRead(records) == records

\* what a handler of a view did: the closure afterwards, the record array of
\* the model afterwards, the drawing it put into the chart if it drew, the
\* download hooks it registered if it did, and whether it ended in an
\* exception
Effect(inst, records, draws, drawing, threw) ==
  [inst |-> inst, records |-> records, draws |-> draws, drawing |-> drawing,
   sets |-> FALSE, filename |-> <<>>, threw |-> threw]

\* controls.setDownloads after a handler that returned normally
WithDownloads(effect, filename) ==
  IF effect.threw THEN effect
  ELSE [effect EXCEPT !.sets = TRUE, !.filename = filename]

\* the call of an undeclared name: a ReferenceError in place of setDownloads
WithReferenceError(effect) == [effect EXCEPT !.threw = TRUE]

\* what render() of a view does with the derived data it has computed: the
\* per-capita view caches the series and draws them unless findCrossovers
\* ended in a TypeError; the beer-strength view draws the bars and the
\* legend unless there are none; the seasonality view and the spirits check
\* cache the cells or points and draw them unless there are none
DrawPerCapita(inst, records, built) ==
  Effect([inst EXCEPT !.cached = built.cachedSeries], records,
         ~built.threw, built.cachedSeries, built.threw)

DrawBars(inst, records, bars) ==
  IF bars = <<>> THEN Effect(inst, records, FALSE, <<>>, FALSE)
  ELSE Effect([inst EXCEPT !.legend = TRUE], records, TRUE, bars, FALSE)

DrawCells(inst, records, cells) ==
  Effect([inst EXCEPT !.cached = cells], records, cells # <<>>, cells, FALSE)

DrawPoints(inst, records, points) ==
  Effect([inst EXCEPT !.cached = points], records, points # <<>>,
         [points |-> points,
          ratios |->
            IF inst.flagA
            THEN smoothSeries([n \in 1..Len(points) |-> points[n].ratio],
                              SMOOTH_WINDOW)
            ELSE [n \in 1..Len(points) |-> points[n].ratio]],
         FALSE)

\* render() of a view: nothing without a shell or a model; the derived data
\* is computed from model.records and cached; the chart is redrawn unless
\* there is nothing to draw
RenderView(inst, records) ==
  IF ~inst.shell \/ inst.model = "null" THEN Effect(inst, records, FALSE, <<>>, FALSE)
  ELSE CASE inst.view = "longrun" ->
              Effect([inst EXCEPT !.legend = TRUE], RecordsRead(records), TRUE,
                     LongRunChart(records, inst.group, inst.activeKeys), FALSE)
         [] inst.view = "percapita" ->
              DrawPerCapita(inst, RecordsRead(records),
                            PerCapitaBuild(records, inst.flagA))
         [] inst.view = "beerstrength" ->
              DrawBars(inst, RecordsRead(records),
                       aggregateRecords(records, inst.flagA, inst.flagB,
                                        inst.activeKeys))
         [] inst.view = "seasonality" ->
              DrawCells(inst, RecordsRead(records),
                        prepareCells(records, inst.group, inst.series, inst.flagA))
         [] inst.view = "spiritscheck" ->
              DrawPoints(inst, RecordsRead(records), preparePoints(records))

\* the file name of the download hooks of a view
Filename(inst) ==
  CASE inst.view = "longrun" -> <<"long-run", GroupKey(inst.group)>>
    [] inst.view = "percapita" ->
         <<"per-capita", IF inst.flagA THEN "smoothed" ELSE "raw">>
    [] inst.view = "beerstrength" ->
         <<"beer-strength", IF inst.flagA THEN "decade" ELSE "year",
           IF inst.flagB THEN "share" ELSE "litres">>
    [] inst.view = "seasonality" -> <<"seasonality", inst.group, inst.series>>
    [] inst.view = "spiritscheck" ->
         <<"spirits-check", IF inst.flagA THEN "smooth" ELSE "raw">>

\* the selection of the seasonality view after the fallback of its init
WithSelection(inst, selection) ==
  IF inst.view = "seasonality"
  THEN [inst EXCEPT !.group = selection.group, !.series = selection.series]
  ELSE inst

Selected(inst, records) == WithSelection(inst, InitialSelection(records))

\* controls.setDownloads of init: the hooks are in the page before the first
\* render, whether it returns or not
Registered(effect) ==
  [effect EXCEPT !.sets = TRUE, !.filename = Filename(effect.inst)]

\* init(container, data, controls) of a view: the model and the shell are
\* kept, the controls and the download hooks are registered, the resize
\* listener is installed and the chart is rendered, in this order. init of
\* the beer-strength view calls updateDownloads, which names the parameter
\* `controls` of init outside its scope: the call ends init.
InitView(inst, records) ==
  IF inst.view = "beerstrength"
  THEN WithReferenceError(
         Effect([inst EXCEPT !.model = "data", !.shell = TRUE], records,
                FALSE, <<>>, FALSE))
  ELSE Registered(
         RenderView([Selected(inst, records) EXCEPT
                       !.model = "data", !.shell = TRUE, !.listener = TRUE],
                    records))

\* destroy() of a view: the resize listener is removed and the references to
\* the shell and the model are dropped; the long-run and beer-strength views
\* reset their active keys, the others empty their cache
DestroyView(inst) ==
  [inst EXCEPT !.listener = FALSE, !.shell = FALSE, !.model = "null",
               !.activeKeys = createView(inst.view).activeKeys,
               !.cached = <<>>, !.legend = FALSE]

\* the download hooks a toggle registers after its render: the beer-strength
\* view calls updateDownloads, the seasonality view adds the mode to the name
AfterToggle(effect) ==
  IF effect.inst.view = "beerstrength" THEN WithReferenceError(effect)
  ELSE WithDownloads(effect,
         IF effect.inst.view = "seasonality"
         THEN Filename(effect.inst)
                \o <<IF effect.inst.flagA THEN "share" ELSE "value">>
         ELSE Filename(effect.inst))

\* onChange of the toggle of a view (of the first toggle of the beer-strength
\* view): the flag is set, the chart rendered, the download hooks replaced
ToggleView(inst, records) ==
  AfterToggle(RenderView([inst EXCEPT !.flagA = ~inst.flagA], records))

\* onChange of the share toggle of the beer-strength view
ToggleShare(inst, records) ==
  WithReferenceError(RenderView([inst EXCEPT !.flagB = ~inst.flagB], records))

\* the click handler without the test of the size: the last key goes too
LegendClickRemovesLast(inst, key, records) ==
  RenderView([inst EXCEPT
                !.activeKeys = IF key \in @ THEN @ \ {key} ELSE @ \cup {key},
                !.clicks = @ + 1],
             records)

\* the click handler of a legend item of the long-run or beer-strength view
LegendClick(inst, key, records) ==
  RenderView([inst EXCEPT
                !.activeKeys =
                  IF key \in @
                  THEN IF Cardinality(@) > 1 THEN @ \ {key} ELSE @
                  ELSE @ \cup {key},
                !.clicks = @ + 1],
             records)

\* controls.setDownloads at the end of the onChange of a select
Hooked(effect) == WithDownloads(effect, Filename(effect.inst))

\* the group is selected and the series selection is left as it was
WithGroupKeepsSeries(inst, value, options) == [inst EXCEPT !.group = value]

\* the group is selected; the seasonality view selects the first series of
\* the group with it
WithGroup(inst, value, options) ==
  IF inst.view = "seasonality"
  THEN [inst EXCEPT !.group = value,
                    !.series = IF Len(options) > 0 THEN options[1] ELSE @]
  ELSE [inst EXCEPT !.group = value]

\* onChange of the group select of the long-run or seasonality view
GroupChange(inst, value, records) ==
  Hooked(RenderView(WithGroup(inst, value, SeriesOptions(records, value)),
                    records))

\* onChange of the series select of the seasonality view
SeriesChange(inst, value, records) ==
  Hooked(RenderView([inst EXCEPT !.series = value], records))

\* the csv hook of the download controls of a view
ExportRows(inst, records, aheadOfUtc) ==
  CASE inst.view = "longrun" ->
         IF inst.model = "null" THEN <<>>
         ELSE createExportRows(records, inst.group, inst.activeKeys)
    [] inst.view = "percapita" -> PerCapitaExportRows(inst.cached)
    [] inst.view = "seasonality" -> HeatExportRows(inst.cached, inst.flagA)
    [] inst.view = "spiritscheck" -> SpiritsExportRows(inst.cached, aheadOfUtc)

\* the records drawn for the application, in date order: one of the long-run
\* view, one of a beer category, litres of spirits, and two quarters of beer
\* per head
AppPool ==
  << AppRecord("Litres of Beverage", "Total beer", 3, "Litres", RInt(1)),
     AppRecord("Litres of Beverage", CATEGORY_LABELS[1], 3, "Litres", RInt(2)),
     AppRecord("(DISC) Volume & Volume Per Head", "Spirits", 6, "Litres", RInt(1)),
     AppRecord("(DISC) Volume & Volume Per Head", "Beer Per Head", 6, "Number", RInt(1)),
     AppRecord("(DISC) Volume & Volume Per Head", "Beer Per Head", 9, "Number", RInt(2)) >>

\* the records of the spirits check drawn for the smoothing toggle: litres
\* and proof litres of spirits at each quarter, the ratio growing
SpiritsQuarter(q) ==
  << AppRecord(SpiritsGroup, SpiritsSeries, 3 * q, "Litres", RInt(q)),
     AppRecord(SpiritsGroup, SpiritsSeries, 3 * q, "ProofL", RInt(1)) >>

\* the records of the per-capita view drawn for it: the three per-head series
\* at each quarter, beer growing
PerHeadQuarter(q) ==
  << AppRecord(PerCapitaGroup, PerCapitaLabels[1], 3 * q, "Number", RInt(q)),
     AppRecord(PerCapitaGroup, PerCapitaLabels[2], 3 * q, "Number", RInt(2)),
     AppRecord(PerCapitaGroup, PerCapitaLabels[3], 3 * q, "Number", RInt(3)) >>

RECURSIVE QuartersUpTo(_, _)
QuartersUpTo(view, q) ==
  IF q = 0 THEN <<>>
  ELSE QuartersUpTo(view, q - 1)
         \o (IF view = "percapita" THEN PerHeadQuarter(q) ELSE SpiritsQuarter(q))

TogglePool(view) == QuartersUpTo(view, MaxQuarters)

\* the records of a pool at the positions kept, in the order of the pool
RECURSIVE Kept(_, _)
Kept(pool, keep) ==
  IF pool = <<>> THEN <<>>
  ELSE Kept(SubSeq(pool, 1, Len(pool) - 1), keep)
         \o (IF Len(pool) \in keep THEN <<pool[Len(pool)]>> ELSE <<>>)

\* ------------------------------------------------------------------- state

VARIABLES
  cell,        \* the Data_value cell handed to coerceNumber
  coerced,     \* what coerceNumber returned
  coercePc,    \* "input" before the call, "done" after it
  csvRows,     \* the rows d3.csv parses the data file to
  cache,       \* csv.ts cache: "null", or the state of the promise it holds
  loaded,      \* the DataModel the cached promise resolved to
  fetchCount,  \* how many times csv() was called
  loadCalls,   \* how many times loadData() was called
  buildCount,  \* how many times the rows were made into a DataModel
  received,    \* per loadData() call: the promise it returned and the cache it found
  crossInput,  \* the series handed to findCrossovers
  crossOutput, \* what findCrossovers returned
  crossPc,     \* "input" before the call, "done" after it
  pivotInput,  \* the records of a group handed to buildSeries (long-run)
  pivotOutput, \* what buildSeries returned
  pivotPc,     \* "input" before the call, "done" after it
  heatInput,   \* the arguments handed to prepareCells
  heatOutput,  \* what prepareCells returned
  heatPc,      \* "input" before the call, "done" after it
  lrData,      \* the records of the DataModel the application loaded
  lrPhase,     \* long-run view instance: "created", "mounted" or "destroyed"
  lrModel,     \* its model: "null" or "data"
  lrShell,     \* its shell: "null" or "shell"
  lrActiveKeys, \* its activeKeys
  lrGroup,     \* its group
  lrListener,  \* whether its resize handler is a listener of the window
  lrTimer,     \* whether the timer of its debounced render is pending
  lrChart,     \* what the chart element shows
  lrDownloads, \* the file name of the download hooks in the controls, or "none"
  lrExport,    \* the rows of the last CSV download
  smoothInput, \* the points and the window size handed to the smoothing functions
  smoothOutput,\* what smoothValues and smoothSeries returned
  smoothPc,    \* "input" before the calls, "done" after them
  spiritsInput,\* the records handed to preparePoints
  spiritsOutput,\* what preparePoints returned
  spiritsPc,   \* "input" before the call, "done" after it, then "exported"
  spiritsExport, \* the rows exportRows made of the points
  barsInput,   \* the arguments handed to aggregateRecords
  barsOutput,  \* what aggregateRecords returned
  barsPc,      \* "input" before the call, "done" after it
  appSource,   \* the records the CSV file holds
  appLoad,     \* the promise of loadData(): "pending", "fulfilled" or "rejected"
  dataModel,   \* <<>> for null, else the model in a one-element tuple
  activeViewId,\* the id of the active view
  currentInstance,\* 0 for null, else the position of the instance in instances
  instances,   \* the view instances the factories returned, oldest first
  summary,     \* the text of the summary element
  navActive,   \* the id of the highlighted navigation button
  chart,       \* what the chart element shows, and the instance that drew it
  downloads,   \* the download hooks in the page and the rows the csv hook returned
  calls,       \* the init and destroy calls made, in order
  selections,  \* the number of clicks on navigation buttons
  slugLabels,  \* the two labels handed to slugify
  slugs,       \* what slugify returned for them
  reslugs,     \* what slugify returned for the slugs
  slugPc,      \* "input", "slugged" after the calls, "again" after the second calls
  monthRow,    \* the raw row handed to deriveMonth
  monthOut,    \* what deriveMonth returned
  monthPc,     \* "input" before the call, "done" after it
  dbNow,       \* the time on the clock of the window
  dbTimer,     \* debounce's timer variable: 0 for null, else the id setTimeout returned
  dbPending,   \* the timers of the window that were set and neither fired nor cleared
  dbCalls,     \* the calls of the debounced function: [at, args]
  dbRuns,      \* the runs of the wrapped function: [at, args, of], of the call that set the timer
  lgRecords,   \* the records of the model the view with a legend is mounted on
  lgInst,      \* the instance of the long-run or beer-strength view
  lgChart,     \* what its last render drew
  lgClicked,   \* the key of the legend item that was clicked last
  tgRecords,   \* the records of the model the view with a smoothing toggle is mounted on
  tgInst,      \* the instance of the per-capita view or the spirits check
  tgChart,     \* what the chart shows: nothing, or the drawing of the last render that drew
  tgFilename,  \* the file name of the registered download hooks
  tgRows       \* the rows the csv hook returned since the last click on the toggle

coerceVars == <<cell, coerced, coercePc>>
loadVars ==
  <<csvRows, cache, loaded, fetchCount, loadCalls, buildCount, received>>
crossVars == <<crossInput, crossOutput, crossPc>>
pivotVars == <<pivotInput, pivotOutput, pivotPc>>
heatVars == <<heatInput, heatOutput, heatPc>>
longRunVars ==
  <<lrData, lrPhase, lrModel, lrShell, lrActiveKeys, lrGroup, lrListener,
    lrTimer, lrChart, lrDownloads, lrExport>>

smoothVars == <<smoothInput, smoothOutput, smoothPc>>

spiritsVars == <<spiritsInput, spiritsOutput, spiritsPc, spiritsExport>>

barsVars == <<barsInput, barsOutput, barsPc>>

appVars ==
  <<appSource, appLoad, dataModel, activeViewId, currentInstance,
    instances, summary, navActive, chart, downloads, calls, selections>>

slugVars == <<slugLabels, slugs, reslugs, slugPc>>

monthVars == <<monthRow, monthOut, monthPc>>

debounceVars == <<dbNow, dbTimer, dbPending, dbCalls, dbRuns>>

legendVars == <<lgRecords, lgInst, lgChart, lgClicked>>

toggleVars == <<tgRecords, tgInst, tgChart, tgFilename, tgRows>>

vars ==
  <<coerceVars, loadVars, crossVars, pivotVars, heatVars, longRunVars,
    smoothVars, spiritsVars, barsVars, appVars, slugVars, monthVars,
    debounceVars, legendVars, toggleVars>>

\* the variables of every component but one
allButCoerce ==
  <<loadVars, crossVars, pivotVars, heatVars, longRunVars, smoothVars,
    spiritsVars, barsVars, appVars, slugVars, monthVars, debounceVars,
    legendVars, toggleVars>>
allButLoad ==
  <<coerceVars, crossVars, pivotVars, heatVars, longRunVars, smoothVars,
    spiritsVars, barsVars, appVars, slugVars, monthVars, debounceVars,
    legendVars, toggleVars>>
allButCross ==
  <<coerceVars, loadVars, pivotVars, heatVars, longRunVars, smoothVars,
    spiritsVars, barsVars, appVars, slugVars, monthVars, debounceVars,
    legendVars, toggleVars>>
allButPivot ==
  <<coerceVars, loadVars, crossVars, heatVars, longRunVars, smoothVars,
    spiritsVars, barsVars, appVars, slugVars, monthVars, debounceVars,
    legendVars, toggleVars>>
allButHeat ==
  <<coerceVars, loadVars, crossVars, pivotVars, longRunVars, smoothVars,
    spiritsVars, barsVars, appVars, slugVars, monthVars, debounceVars,
    legendVars, toggleVars>>
allButLongRun ==
  <<coerceVars, loadVars, crossVars, pivotVars, heatVars, smoothVars,
    spiritsVars, barsVars, appVars, slugVars, monthVars, debounceVars,
    legendVars, toggleVars>>
allButSmooth ==
  <<coerceVars, loadVars, crossVars, pivotVars, heatVars, longRunVars,
    spiritsVars, barsVars, appVars, slugVars, monthVars, debounceVars,
    legendVars, toggleVars>>
allButSpirits ==
  <<coerceVars, loadVars, crossVars, pivotVars, heatVars, longRunVars,
    smoothVars, barsVars, appVars, slugVars, monthVars, debounceVars,
    legendVars, toggleVars>>
allButBars ==
  <<coerceVars, loadVars, crossVars, pivotVars, heatVars, longRunVars,
    smoothVars, spiritsVars, appVars, slugVars, monthVars, debounceVars,
    legendVars, toggleVars>>
allButApp ==
  <<coerceVars, loadVars, crossVars, pivotVars, heatVars, longRunVars,
    smoothVars, spiritsVars, barsVars, slugVars, monthVars, debounceVars,
    legendVars, toggleVars>>
allButSlug ==
  <<coerceVars, loadVars, crossVars, pivotVars, heatVars, longRunVars,
    smoothVars, spiritsVars, barsVars, appVars, monthVars, debounceVars,
    legendVars, toggleVars>>
allButMonth ==
  <<coerceVars, loadVars, crossVars, pivotVars, heatVars, longRunVars,
    smoothVars, spiritsVars, barsVars, appVars, slugVars, debounceVars,
    legendVars, toggleVars>>
allButDebounce ==
  <<coerceVars, loadVars, crossVars, pivotVars, heatVars, longRunVars,
    smoothVars, spiritsVars, barsVars, appVars, slugVars, monthVars,
    legendVars, toggleVars>>
allButLegend ==
  <<coerceVars, loadVars, crossVars, pivotVars, heatVars, longRunVars,
    smoothVars, spiritsVars, barsVars, appVars, slugVars, monthVars,
    debounceVars, toggleVars>>
allButToggle ==
  <<coerceVars, loadVars, crossVars, pivotVars, heatVars, longRunVars,
    smoothVars, spiritsVars, barsVars, appVars, slugVars, monthVars,
    debounceVars, legendVars>>

\* the variables of the other components, at rest
CoerceIdle == cell = Undef /\ coerced = Null /\ coercePc = "idle"
LoadIdle ==
  /\ csvRows = <<>>
  /\ cache = "idle"
  /\ loaded = BuildModel(<<>>)
  /\ fetchCount = 0
  /\ loadCalls = 0
  /\ buildCount = 0
  /\ received = <<>>
CrossIdle ==
  /\ crossInput = <<>>
  /\ crossOutput = [threw |-> FALSE, crossings |-> <<>>]
  /\ crossPc = "idle"

PivotIdle ==
  /\ pivotInput = <<>>
  /\ pivotOutput = [series |-> <<>>, points |-> <<>>]
  /\ pivotPc = "idle"
HeatIdle ==
  /\ heatInput = [records |-> <<>>, normalize |-> FALSE]
  /\ heatOutput = <<>>
  /\ heatPc = "idle"
LongRunIdle ==
  /\ lrData = <<>>
  /\ lrPhase = "idle"
  /\ lrModel = "null"
  /\ lrShell = "null"
  /\ lrActiveKeys = LongRunKeys
  /\ lrGroup = LongRunGroups[1]
  /\ lrListener = FALSE
  /\ lrTimer = FALSE
  /\ lrChart = NoChart
  /\ lrDownloads = "none"
  /\ lrExport = <<>>
SmoothIdle ==
  /\ smoothInput = [values |-> <<>>, windowSize |-> 0]
  /\ smoothOutput = [points |-> <<>>, numbers |-> <<>>]
  /\ smoothPc = "idle"
SpiritsIdle ==
  /\ spiritsInput = <<>>
  /\ spiritsOutput = <<>>
  /\ spiritsPc = "idle"
  /\ spiritsExport = <<>>
BarsIdle ==
  /\ barsInput = [records |-> <<>>, byDecade |-> FALSE, share |-> FALSE,
                  activeKeys |-> CategoryKeys]
  /\ barsOutput = <<>>
  /\ barsPc = "idle"
AppIdle ==
  /\ appSource = <<>>
  /\ appLoad = "idle"
  /\ dataModel = <<>>
  /\ activeViewId = ""
  /\ currentInstance = 0
  /\ instances = <<>>
  /\ summary = ""
  /\ navActive = ""
  /\ chart = [owner |-> 0, drawn |-> FALSE, drawing |-> <<>>]
  /\ downloads = [owner |-> 0, filename |-> <<>>, rows |-> <<>>]
  /\ calls = <<>>
  /\ selections = 0
SlugIdle ==
  /\ slugLabels = <<>>
  /\ slugs = <<>>
  /\ reslugs = <<>>
  /\ slugPc = "idle"
MonthIdle ==
  /\ monthRow = <<>>
  /\ monthOut = 0
  /\ monthPc = "idle"
DebounceIdle ==
  /\ dbNow = 0
  /\ dbTimer = 0
  /\ dbPending = {}
  /\ dbCalls = <<>>
  /\ dbRuns = <<>>
LegendIdle ==
  /\ lgRecords = <<>>
  /\ lgInst = <<>>
  /\ lgChart = <<>>
  /\ lgClicked = ""
ToggleIdle ==
  /\ tgRecords = <<>>
  /\ tgInst = <<>>
  /\ tgChart = <<>>
  /\ tgFilename = <<>>
  /\ tgRows = <<>>

\* every component but one at rest
IdleButCoerce ==
  LoadIdle /\ CrossIdle /\ PivotIdle /\ HeatIdle /\ LongRunIdle
    /\ SmoothIdle /\ SpiritsIdle /\ BarsIdle /\ AppIdle /\ SlugIdle
    /\ MonthIdle /\ DebounceIdle /\ LegendIdle /\ ToggleIdle
IdleButLoad ==
  CoerceIdle /\ CrossIdle /\ PivotIdle /\ HeatIdle /\ LongRunIdle
    /\ SmoothIdle /\ SpiritsIdle /\ BarsIdle /\ AppIdle /\ SlugIdle
    /\ MonthIdle /\ DebounceIdle /\ LegendIdle /\ ToggleIdle
IdleButCross ==
  CoerceIdle /\ LoadIdle /\ PivotIdle /\ HeatIdle /\ LongRunIdle
    /\ SmoothIdle /\ SpiritsIdle /\ BarsIdle /\ AppIdle /\ SlugIdle
    /\ MonthIdle /\ DebounceIdle /\ LegendIdle /\ ToggleIdle
IdleButPivot ==
  CoerceIdle /\ LoadIdle /\ CrossIdle /\ HeatIdle /\ LongRunIdle
    /\ SmoothIdle /\ SpiritsIdle /\ BarsIdle /\ AppIdle /\ SlugIdle
    /\ MonthIdle /\ DebounceIdle /\ LegendIdle /\ ToggleIdle
IdleButHeat ==
  CoerceIdle /\ LoadIdle /\ CrossIdle /\ PivotIdle /\ LongRunIdle
    /\ SmoothIdle /\ SpiritsIdle /\ BarsIdle /\ AppIdle /\ SlugIdle
    /\ MonthIdle /\ DebounceIdle /\ LegendIdle /\ ToggleIdle
IdleButLongRun ==
  CoerceIdle /\ LoadIdle /\ CrossIdle /\ PivotIdle /\ HeatIdle
    /\ SmoothIdle /\ SpiritsIdle /\ BarsIdle /\ AppIdle /\ SlugIdle
    /\ MonthIdle /\ DebounceIdle /\ LegendIdle /\ ToggleIdle
IdleButSmooth ==
  CoerceIdle /\ LoadIdle /\ CrossIdle /\ PivotIdle /\ HeatIdle
    /\ LongRunIdle /\ SpiritsIdle /\ BarsIdle /\ AppIdle /\ SlugIdle
    /\ MonthIdle /\ DebounceIdle /\ LegendIdle /\ ToggleIdle
IdleButSpirits ==
  CoerceIdle /\ LoadIdle /\ CrossIdle /\ PivotIdle /\ HeatIdle
    /\ LongRunIdle /\ SmoothIdle /\ BarsIdle /\ AppIdle /\ SlugIdle
    /\ MonthIdle /\ DebounceIdle /\ LegendIdle /\ ToggleIdle
IdleButBars ==
  CoerceIdle /\ LoadIdle /\ CrossIdle /\ PivotIdle /\ HeatIdle
    /\ LongRunIdle /\ SmoothIdle /\ SpiritsIdle /\ AppIdle /\ SlugIdle
    /\ MonthIdle /\ DebounceIdle /\ LegendIdle /\ ToggleIdle
IdleButApp ==
  CoerceIdle /\ LoadIdle /\ CrossIdle /\ PivotIdle /\ HeatIdle
    /\ LongRunIdle /\ SmoothIdle /\ SpiritsIdle /\ BarsIdle /\ SlugIdle
    /\ MonthIdle /\ DebounceIdle /\ LegendIdle /\ ToggleIdle
IdleButSlug ==
  CoerceIdle /\ LoadIdle /\ CrossIdle /\ PivotIdle /\ HeatIdle
    /\ LongRunIdle /\ SmoothIdle /\ SpiritsIdle /\ BarsIdle /\ AppIdle
    /\ MonthIdle /\ DebounceIdle /\ LegendIdle /\ ToggleIdle
IdleButMonth ==
  CoerceIdle /\ LoadIdle /\ CrossIdle /\ PivotIdle /\ HeatIdle
    /\ LongRunIdle /\ SmoothIdle /\ SpiritsIdle /\ BarsIdle /\ AppIdle
    /\ SlugIdle /\ DebounceIdle /\ LegendIdle /\ ToggleIdle
IdleButDebounce ==
  CoerceIdle /\ LoadIdle /\ CrossIdle /\ PivotIdle /\ HeatIdle
    /\ LongRunIdle /\ SmoothIdle /\ SpiritsIdle /\ BarsIdle /\ AppIdle
    /\ SlugIdle /\ MonthIdle /\ LegendIdle /\ ToggleIdle
IdleButLegend ==
  CoerceIdle /\ LoadIdle /\ CrossIdle /\ PivotIdle /\ HeatIdle
    /\ LongRunIdle /\ SmoothIdle /\ SpiritsIdle /\ BarsIdle /\ AppIdle
    /\ SlugIdle /\ MonthIdle /\ DebounceIdle /\ ToggleIdle
IdleButToggle ==
  CoerceIdle /\ LoadIdle /\ CrossIdle /\ PivotIdle /\ HeatIdle
    /\ LongRunIdle /\ SmoothIdle /\ SpiritsIdle /\ BarsIdle /\ AppIdle
    /\ SlugIdle /\ MonthIdle /\ DebounceIdle /\ LegendIdle

\* ------------------------------------------------- coerceNumber on a cell

CoerceInit ==
  /\ cell \in CellTexts
  /\ coerced = Null
  /\ coercePc = "input"
  /\ IdleButCoerce

Coerce ==
  /\ coercePc = "input"
  /\ coerced' = coerceNumber(cell)
  /\ coercePc' = "done"
  /\ UNCHANGED <<cell, allButCoerce>>

SpecCoerce == CoerceInit /\ [][Coerce]_vars

\* ----------------------------------------------------------------- slugify

\* two labels, each slugified once and the slugs slugified again
SlugInit ==
  /\ \E a \in BoundedSeq(LabelChars, MaxLabelLen) :
       \E b \in BoundedSeq(LabelChars, MaxOtherLabelLen) :
         slugLabels = <<a, b>>
  /\ slugs = <<>>
  /\ reslugs = <<>>
  /\ slugPc = "input"
  /\ IdleButSlug

Slugify ==
  /\ slugPc = "input"
  /\ slugs' = <<slugify(slugLabels[1]), slugify(slugLabels[2])>>
  /\ slugPc' = "slugged"
  /\ UNCHANGED <<slugLabels, reslugs, allButSlug>>

SlugifyAgain ==
  /\ slugPc = "slugged"
  /\ reslugs' = <<slugify(slugs[1]), slugify(slugs[2])>>
  /\ slugPc' = "again"
  /\ UNCHANGED <<slugLabels, slugs, allButSlug>>

SlugNext == Slugify \/ SlugifyAgain

SpecSlug == SlugInit /\ [][SlugNext]_vars

\* ------------------------------------------------------------- deriveMonth

\* a row whose four month alias columns are drawn from MonthCells
MonthInit ==
  /\ \E unnamed1, blank, month, code \in MonthCells :
       monthRow = RawRow(Undef, Undef, Undef, Undef, Undef,
                         unnamed1, blank, month, code)
  /\ monthOut = 0
  /\ monthPc = "input"
  /\ IdleButMonth

DeriveMonth ==
  /\ monthPc = "input"
  /\ monthOut' = deriveMonth(monthRow)
  /\ monthPc' = "done"
  /\ UNCHANGED <<monthRow, allButMonth>>

SpecMonth == MonthInit /\ [][DeriveMonth]_vars

\* ---------------------------------------------------------------- debounce

DebounceInit ==
  /\ dbNow = 0
  /\ dbTimer = 0
  /\ dbPending = {}
  /\ dbCalls = <<>>
  /\ dbRuns = <<>>
  /\ IdleButDebounce

\* window.clearTimeout(id)
ClearTimeout(pending, id) == {t \in pending : t.id # id}

\* the debounced function without the clearTimeout: every call's timer stays
DebounceCallNoClear(args) ==
  /\ Len(dbCalls) < MaxDebounceCalls
  /\ dbCalls' = Append(dbCalls, [at |-> dbNow, args |-> args])
  /\ dbTimer' = Len(dbCalls')
  /\ dbPending' = dbPending \cup
                    {[id |-> dbTimer', due |-> dbNow + DebounceDelay, args |-> args]}
  /\ UNCHANGED <<dbNow, dbRuns, allButDebounce>>

\* the function debounce returns, called with args: the timer that is held is
\* cleared and a new one is set; timer ids are the numbers of the calls
DebounceCall(args) ==
  /\ Len(dbCalls) < MaxDebounceCalls
  /\ dbCalls' = Append(dbCalls, [at |-> dbNow, args |-> args])
  /\ dbTimer' = Len(dbCalls')
  /\ dbPending' =
       (IF dbTimer # 0 THEN ClearTimeout(dbPending, dbTimer) ELSE dbPending)
         \cup {[id |-> dbTimer', due |-> dbNow + DebounceDelay, args |-> args]}
  /\ UNCHANGED <<dbNow, dbRuns, allButDebounce>>

\* the callback of setTimeout: fn(...args), then timer = null unless fn threw
DebounceFire ==
  \E t \in dbPending : \E fnThrew \in BOOLEAN :
    /\ t.due = dbNow
    /\ dbPending' = dbPending \ {t}
    /\ dbRuns' = Append(dbRuns, [at |-> dbNow, args |-> t.args, of |-> t.id])
    /\ dbTimer' = IF fnThrew THEN dbTimer ELSE 0
    /\ UNCHANGED <<dbNow, dbCalls, allButDebounce>>

\* the clock moves on once the timers that are due have fired
DebounceTick ==
  /\ dbNow < MaxTime
  /\ \A t \in dbPending : t.due # dbNow
  /\ dbNow' = dbNow + 1
  /\ UNCHANGED <<dbTimer, dbPending, dbCalls, dbRuns, allButDebounce>>

DebounceNext ==
  \/ \E args \in DebounceArgs : DebounceCall(args)
  \/ DebounceFire
  \/ DebounceTick

SpecDebounce == DebounceInit /\ [][DebounceNext]_vars

\* -------------------------------------------- the legends of the two views

\* createView() of the long-run or the beer-strength view, and a model with
\* a record of each
LegendCreate ==
  /\ lgRecords = SubSeq(AppPool, 1, 2)
  /\ \E view \in {"longrun", "beerstrength"} : lgInst = createView(view)
  /\ lgChart = <<>>
  /\ lgClicked = ""
  /\ IdleButLegend

\* what a handler of the instance leaves behind
LegendApply(effect) ==
  /\ lgInst' = effect.inst
  /\ lgChart' = IF effect.draws THEN effect.drawing ELSE lgChart
  /\ UNCHANGED <<lgRecords, allButLegend>>

\* init(container, data, controls)
LegendInitView ==
  /\ ~lgInst.shell
  /\ lgInst.model = "null"
  /\ lgInst.clicks = 0
  /\ lgChart = <<>>
  /\ LegendApply(InitView(lgInst, lgRecords))
  /\ UNCHANGED lgClicked

\* the first toggle of the beer-strength view, whose render draws the legend
LegendToggle ==
  /\ lgInst.shell
  /\ lgInst.view = "beerstrength"
  /\ LegendApply(ToggleView(lgInst, lgRecords))
  /\ UNCHANGED lgClicked

\* a click on a legend item
LegendItemClick(key) ==
  /\ lgInst.legend
  /\ lgInst.clicks < MaxLegendDepth
  /\ key \in createView(lgInst.view).activeKeys
  /\ LegendApply(LegendClick(lgInst, key, lgRecords))
  /\ lgClicked' = key

\* destroy()
LegendDestroy ==
  /\ lgInst.shell
  /\ lgInst' = DestroyView(lgInst)
  /\ lgChart' = <<>>
  /\ UNCHANGED <<lgRecords, lgClicked, allButLegend>>

LegendNext ==
  \/ LegendInitView
  \/ LegendToggle
  \/ \E key \in LongRunKeys \cup CategoryKeys : LegendItemClick(key)
  \/ LegendDestroy

SpecLegend == LegendCreate /\ [][LegendNext]_vars

\* ------------------------------------------------- the smoothing toggles

\* createView() of the per-capita view or the spirits check, and a model with
\* some of the records of the view's pool, in date order
ToggleCreate ==
  /\ \E view \in {"percapita", "spiritscheck"} :
       \E keep \in SUBSET (1..Len(TogglePool(view))) :
         /\ tgInst = createView(view)
         /\ tgRecords = Kept(TogglePool(view), keep)
  /\ tgChart = <<>>
  /\ tgFilename = <<>>
  /\ tgRows = <<>>
  /\ IdleButToggle

\* what a handler of the instance leaves behind
ToggleApply(effect) ==
  /\ tgInst' = effect.inst
  /\ tgChart' = IF effect.draws THEN <<effect.drawing>> ELSE tgChart
  /\ tgFilename' = IF effect.sets THEN effect.filename ELSE tgFilename
  /\ tgRows' = <<>>
  /\ UNCHANGED <<tgRecords, allButToggle>>

\* init(container, data, controls)
ToggleInitView ==
  /\ ~tgInst.shell
  /\ ToggleApply(InitView(tgInst, tgRecords))

\* a click on the smoothing toggle
ToggleClick ==
  /\ tgInst.shell
  /\ ToggleApply(ToggleView(tgInst, tgRecords))

\* the csv hook of the download controls is called
ToggleExportCsv ==
  /\ tgFilename # <<>>
  /\ \E aheadOfUtc \in BOOLEAN :
       tgRows' = <<ExportRows(tgInst, tgRecords, aheadOfUtc)>>
  /\ UNCHANGED <<tgRecords, tgInst, tgChart, tgFilename, allButToggle>>

ToggleNext == ToggleInitView \/ ToggleClick \/ ToggleExportCsv

SpecToggle == ToggleCreate /\ [][ToggleNext]_vars

\* ---------------------------------------------------------------- loadData

LoadInit ==
  /\ csvRows \in BoundedSeq(RowPool, MaxRows)
  /\ cache = "null"
  /\ loaded = BuildModel(<<>>)
  /\ fetchCount = 0
  /\ loadCalls = 0
  /\ buildCount = 0
  /\ received = <<>>
  /\ IdleButLoad

\* loadData() without the test of the cache: every call fetches
LoadDataCallUncached ==
  /\ loadCalls < MaxLoadCalls
  /\ loadCalls' = loadCalls + 1
  /\ cache' = "pending"
  /\ fetchCount' = fetchCount + 1
  /\ received' = Append(received, [promise |-> fetchCount', found |-> cache])
  /\ UNCHANGED <<csvRows, loaded, buildCount, allButLoad>>

\* loadData(): the cached promise if there is one, else the promise of a new
\* fetch, which is cached; promises are numbered by the fetch they belong to
LoadDataCall ==
  /\ loadCalls < MaxLoadCalls
  /\ loadCalls' = loadCalls + 1
  /\ IF cache = "null"
     THEN cache' = "pending" /\ fetchCount' = fetchCount + 1
     ELSE UNCHANGED <<cache, fetchCount>>
  /\ received' = Append(received, [promise |-> fetchCount', found |-> cache])
  /\ UNCHANGED <<csvRows, loaded, buildCount, allButLoad>>

\* the fetch succeeds and the .then callback builds the model
FetchFulfil ==
  /\ cache = "pending"
  /\ loaded' = BuildModel(csvRows)
  /\ buildCount' = buildCount + 1
  /\ cache' = "fulfilled"
  /\ UNCHANGED <<csvRows, fetchCount, loadCalls, received, allButLoad>>

\* the fetch fails: the cached promise rejects
FetchReject ==
  /\ cache = "pending"
  /\ cache' = "rejected"
  /\ UNCHANGED <<csvRows, loaded, fetchCount, loadCalls, buildCount, received,
                 allButLoad>>

LoadNext == LoadDataCall \/ FetchFulfil \/ FetchReject

SpecLoad == LoadInit /\ [][LoadNext]_vars

\* ---------------------------------------------- findCrossovers on series

\* equal-length, time-aligned series: two series of up to MaxSamples samples,
\* or three series of up to MaxSamples - 1
CrossInit ==
  /\ \E n \in 2..3, len \in 0..MaxSamples, axis \in Axes :
       /\ n = 3 => len < MaxSamples
       /\ \E v \in [1..n -> [1..len -> CrossValues]] :
            crossInput = SeriesOf(n, len, axis, v)
  /\ crossOutput = [threw |-> FALSE, crossings |-> <<>>]
  /\ crossPc = "input"
  /\ IdleButCross

FindCrossovers ==
  /\ crossPc = "input"
  /\ crossOutput' = findCrossovers(crossInput)
  /\ crossPc' = "done"
  /\ UNCHANGED <<crossInput, allButCross>>

SpecCross == CrossInit /\ [][FindCrossovers]_vars

\* ------------------------------------------- buildSeries (long-run) on records

\* the records of one group in ascending date order, as model.records has them
PivotInit ==
  /\ \E n \in 0..MaxPivotRecords :
       \E records \in [1..n -> PivotPool] :
         /\ \A i \in 1..(n - 1) : records[i].date <= records[i + 1].date
         /\ pivotInput = records
  /\ pivotOutput = [series |-> <<>>, points |-> <<>>]
  /\ pivotPc = "input"
  /\ IdleButPivot

BuildSeries ==
  /\ pivotPc = "input"
  /\ pivotOutput' = buildSeries(pivotInput, LongRunLabels)
  /\ pivotPc' = "done"
  /\ UNCHANGED <<pivotInput, allButPivot>>

SpecPivot == PivotInit /\ [][BuildSeries]_vars

\* --------------------------------------- prepareCells (seasonality) on records

\* records in ascending date order, as model.records has them, for the
\* default selections of the view, with and without 'normalize by year'
HeatInit ==
  /\ \E n \in 0..MaxHeatRecords, normalize \in BOOLEAN :
       \E records \in [1..n -> HeatPool] :
         /\ \A i \in 1..(n - 1) : records[i].date <= records[i + 1].date
         /\ heatInput = [records |-> records, normalize |-> normalize]
  /\ heatOutput = <<>>
  /\ heatPc = "input"
  /\ IdleButHeat

PrepareCells ==
  /\ heatPc = "input"
  /\ heatOutput' =
       prepareCells(heatInput.records, defaultGroup, defaultSeries, heatInput.normalize)
  /\ heatPc' = "done"
  /\ UNCHANGED <<heatInput, allButHeat>>

SpecHeat == HeatInit /\ [][PrepareCells]_vars

\* ------------------------------------------- the smoothing functions on values

\* a quarterly series of up to MaxSmoothLen values and a window size up to
\* SMOOTH_WINDOW
SmoothInit ==
  /\ \E len \in 0..MaxSmoothLen, windowSize \in 0..SMOOTH_WINDOW :
       \E v \in [1..len -> SmoothValues] :
         smoothInput =
           [values |-> [k \in 1..len |-> [date |-> QuarterDate(k), value |-> v[k]]],
            windowSize |-> windowSize]
  /\ smoothOutput = [points |-> <<>>, numbers |-> <<>>]
  /\ smoothPc = "input"
  /\ IdleButSmooth

\* smoothValues on the points and smoothSeries on their values
Smooth ==
  /\ smoothPc = "input"
  /\ smoothOutput' =
       [points |-> smoothValues(smoothInput.values, smoothInput.windowSize),
        numbers |->
          smoothSeries([k \in 1..Len(smoothInput.values) |-> smoothInput.values[k].value],
                       smoothInput.windowSize)]
  /\ smoothPc' = "done"
  /\ UNCHANGED <<smoothInput, allButSmooth>>

SpecSmooth == SmoothInit /\ [][Smooth]_vars

\* --------------------------------------- preparePoints (spirits) on records

\* records in ascending date order, as model.records has them
SpiritsInit ==
  /\ \E n \in 0..MaxSpiritsRecords :
       \E records \in [1..n -> SpiritsPool] :
         /\ \A i \in 1..(n - 1) : records[i].date <= records[i + 1].date
         /\ spiritsInput = records
  /\ spiritsOutput = <<>>
  /\ spiritsPc = "input"
  /\ spiritsExport = <<>>
  /\ IdleButSpirits

PreparePoints ==
  /\ spiritsPc = "input"
  /\ spiritsOutput' = preparePoints(spiritsInput)
  /\ spiritsPc' = "done"
  /\ UNCHANGED <<spiritsInput, spiritsExport, allButSpirits>>

\* the csv hook of the spirits check, where local time is ahead of UTC or not
ExportSpirits ==
  /\ spiritsPc = "done"
  /\ \E aheadOfUtc \in BOOLEAN :
       spiritsExport' = SpiritsExportRows(spiritsOutput, aheadOfUtc)
  /\ spiritsPc' = "exported"
  /\ UNCHANGED <<spiritsInput, spiritsOutput, allButSpirits>>

SpiritsNext == PreparePoints \/ ExportSpirits

SpecSpirits == SpiritsInit /\ [][SpiritsNext]_vars

\* ------------------------------------ aggregateRecords (beer-strength) on records

\* records in ascending date order with every setting of the two toggles and
\* all categories or all but the first active; or the four quarters of a
\* year of one category, which is the only active one
BarsInit ==
  /\ \/ \E n \in 0..MaxBarRecords, byDecade \in BOOLEAN, share \in BOOLEAN,
           activeKeys \in {CategoryKeys,
                           CategoryKeys \ {CategoryKey(CATEGORY_LABELS[1])}} :
          \E records \in [1..n -> BarPool] :
            /\ \A i \in 1..(n - 1) : records[i].date <= records[i + 1].date
            /\ barsInput = [records |-> records, byDecade |-> byDecade,
                            share |-> share, activeKeys |-> activeKeys]
     \/ \E year \in {2000, 2009}, c \in 1..Len(CATEGORY_LABELS),
           byDecade \in BOOLEAN, share \in BOOLEAN :
          barsInput = [records |-> FourQuarters(year, CATEGORY_LABELS[c]),
                       byDecade |-> byDecade, share |-> share,
                       activeKeys |-> {CategoryKey(CATEGORY_LABELS[c])}]
  /\ barsOutput = <<>>
  /\ barsPc = "input"
  /\ IdleButBars

AggregateRecords ==
  /\ barsPc = "input"
  /\ barsOutput' = aggregateRecords(barsInput.records, barsInput.byDecade,
                                    barsInput.share, barsInput.activeKeys)
  /\ barsPc' = "done"
  /\ UNCHANGED <<barsInput, allButBars>>

SpecBars == BarsInit /\ [][AggregateRecords]_vars

\* ------------------------------------------------ the long-run view mounted

\* createView(): a view instance that was not initialised yet, and the model
\* the application will hand to it
LongRunCreate ==
  /\ \E n \in 0..MaxViewRecords :
       \E records \in [1..n -> LongRunPool] : lrData = records
  /\ lrPhase = "created"
  /\ lrModel = "null"
  /\ lrShell = "null"
  /\ lrActiveKeys = LongRunKeys
  /\ lrGroup = LongRunGroups[1]
  /\ lrListener = FALSE
  /\ lrTimer = FALSE
  /\ lrChart = NoChart
  /\ lrDownloads = "none"
  /\ lrExport = <<>>
  /\ IdleButLongRun

\* render(): nothing without a shell and a model, else the chart is redrawn
LongRunRender(shell, model, group, activeKeys) ==
  IF shell = "null" \/ model = "null" THEN UNCHANGED lrChart
  ELSE lrChart' = LongRunChart(lrData, group, activeKeys)

\* init(container, data, controls)
LongRunInitView ==
  /\ lrPhase = "created"
  /\ lrPhase' = "mounted"
  /\ lrModel' = "data"
  /\ lrShell' = "shell"
  /\ lrDownloads' = GroupKey(lrGroup)
  /\ lrListener' = TRUE
  /\ LongRunRender("shell", "data", lrGroup, lrActiveKeys)
  /\ UNCHANGED <<lrData, lrActiveKeys, lrGroup, lrTimer, lrExport, allButLongRun>>

\* the click handler of a legend item
LongRunLegendClick(key) ==
  /\ lrPhase = "mounted"
  /\ lrActiveKeys' =
       IF key \in lrActiveKeys
       THEN IF Cardinality(lrActiveKeys) > 1 THEN lrActiveKeys \ {key} ELSE lrActiveKeys
       ELSE lrActiveKeys \cup {key}
  /\ LongRunRender(lrShell, lrModel, lrGroup, lrActiveKeys')
  /\ UNCHANGED <<lrData, lrPhase, lrModel, lrShell, lrGroup, lrListener, lrTimer,
                 lrDownloads, lrExport, allButLongRun>>

\* onChange of the measurement group select
LongRunGroupChange(value) ==
  /\ lrPhase = "mounted"
  /\ value # lrGroup
  /\ lrGroup' = value
  /\ LongRunRender(lrShell, lrModel, value, lrActiveKeys)
  /\ lrDownloads' = GroupKey(value)
  /\ UNCHANGED <<lrData, lrPhase, lrModel, lrShell, lrActiveKeys, lrListener,
                 lrTimer, lrExport, allButLongRun>>

\* a resize event of the window: the debounced render is (re)scheduled
LongRunResize ==
  /\ lrListener
  /\ lrTimer' = TRUE
  /\ UNCHANGED <<lrData, lrPhase, lrModel, lrShell, lrActiveKeys, lrGroup,
                 lrListener, lrChart, lrDownloads, lrExport, allButLongRun>>

\* the timer of the debounced render fires
LongRunResizeFire ==
  /\ lrTimer
  /\ lrTimer' = FALSE
  /\ LongRunRender(lrShell, lrModel, lrGroup, lrActiveKeys)
  /\ UNCHANGED <<lrData, lrPhase, lrModel, lrShell, lrActiveKeys, lrGroup,
                 lrListener, lrDownloads, lrExport, allButLongRun>>

\* the csv hook of the downloads: createExportRows()
LongRunExportCsv ==
  /\ lrDownloads # "none"
  /\ lrExport' =
       IF lrModel = "null" THEN <<>>
       ELSE createExportRows(lrData, lrGroup, lrActiveKeys)
  /\ UNCHANGED <<lrData, lrPhase, lrModel, lrShell, lrActiveKeys, lrGroup,
                 lrListener, lrTimer, lrChart, lrDownloads, allButLongRun>>

\* mountView of another view: the controls and the chart element are
\* emptied, then destroy() of this instance runs
LongRunUnmount ==
  /\ lrPhase = "mounted"
  /\ lrPhase' = "destroyed"
  /\ lrDownloads' = "none"
  /\ lrChart' = NoChart
  /\ lrListener' = FALSE
  /\ lrShell' = "null"
  /\ lrModel' = "null"
  /\ lrActiveKeys' = LongRunKeys
  /\ UNCHANGED <<lrData, lrGroup, lrTimer, lrExport, allButLongRun>>

LongRunNext ==
  \/ LongRunInitView
  \/ \E key \in LongRunKeys : LongRunLegendClick(key)
  \/ \E value \in {LongRunGroups[g] : g \in 1..Len(LongRunGroups)} :
       LongRunGroupChange(value)
  \/ LongRunResize
  \/ LongRunResizeFire
  \/ LongRunExportCsv
  \/ LongRunUnmount

SpecLongRun == LongRunCreate /\ [][LongRunNext]_vars

\* ------------------------------------------------ the application (main.ts)

NoModel == <<>>
NoDrawing == [owner |-> 0, drawn |-> FALSE, drawing |-> <<>>]
NoDownloads == [owner |-> 0, filename |-> <<>>, rows |-> <<>>]
FailedToLoad == "Failed to load data"

\* the module is evaluated: the layout is built, no model, no instance, the
\* first view of the registry active, and loadData() is pending; the CSV
\* file holds up to MaxAppRecords consecutive records of the pool
AppInit ==
  /\ \E first \in 1..Len(AppPool), n \in 0..MaxAppRecords :
       /\ first + n - 1 <= Len(AppPool)
       /\ appSource = SubSeq(AppPool, first, first + n - 1)
  /\ appLoad = "pending"
  /\ dataModel = NoModel
  /\ activeViewId = ViewIds[1]
  /\ currentInstance = 0
  /\ instances = <<>>
  /\ summary = ""
  /\ navActive = ViewIds[1]
  /\ chart = NoDrawing
  /\ downloads = NoDownloads
  /\ calls = <<>>
  /\ selections = 0
  /\ IdleButApp

\* An instance after its destroy(): its controls and its legend are out of
\* the page and its render returns at once, so no handler reads its toggles
\* and selections again; they are kept as a new instance has them.
Retired(inst) ==
  [inst EXCEPT !.flagA = FALSE, !.flagB = FALSE, !.clicks = 0,
               !.group = createView(inst.view).group,
               !.series = createView(inst.view).series]

\* mountView(id, model): the controls, the downloads and the chart element
\* are emptied, the current instance is destroyed, a new instance is made
\* current and initialised. An exception of init leaves mountView; inside
\* the callback of the load it is caught and reported as a failed load.
Mount(id, model, inLoad, fresh, effect) ==
  /\ instances' =
       Append(IF currentInstance = 0 THEN instances
              ELSE [instances EXCEPT ![currentInstance] = Retired(DestroyView(@))],
              effect.inst)
  /\ calls' =
       calls
         \o (IF currentInstance = 0 THEN <<>>
             ELSE <<[op |-> "destroy", instance |-> currentInstance]>>)
         \o <<[op |-> "init", instance |-> fresh]>>
  /\ currentInstance' = fresh
  /\ activeViewId' = id
  /\ navActive' = id
  /\ summary' = IF inLoad /\ effect.threw THEN FailedToLoad ELSE id
  /\ chart' = [owner |-> fresh, drawn |-> effect.draws,
               drawing |-> IF effect.draws THEN effect.drawing ELSE <<>>]
  /\ downloads' =
       IF effect.sets
       THEN [owner |-> fresh, filename |-> effect.filename, rows |-> <<>>]
       ELSE NoDownloads
  /\ dataModel' = <<[model EXCEPT !.records = effect.records]>>

MountView(id, model, inLoad) ==
  Mount(id, model, inLoad, Len(instances) + 1,
        InitView(createView(id), model.records))

\* the promise of loadData() fulfils: the .then callback
LoadFulfil ==
  /\ appLoad = "pending"
  /\ appLoad' = "fulfilled"
  /\ MountView(activeViewId, ModelOfRecords(appSource), TRUE)
  /\ UNCHANGED <<appSource, selections, allButApp>>

\* the rejection swallowed: a .catch callback that writes nothing
LoadRejectSilent ==
  /\ appLoad = "pending"
  /\ appLoad' = "rejected"
  /\ UNCHANGED <<appSource, dataModel, activeViewId, currentInstance, instances,
                 summary, navActive, chart, downloads, calls, selections,
                 allButApp>>

\* the promise of loadData() rejects: the .catch callback
LoadReject ==
  /\ appLoad = "pending"
  /\ appLoad' = "rejected"
  /\ summary' = FailedToLoad
  /\ UNCHANGED <<appSource, dataModel, activeViewId, currentInstance, instances,
                 navActive, chart, downloads, calls, selections, allButApp>>

\* onSelect without the test of the active id: every click mounts
NavSelectAlways(id) ==
  /\ selections < MaxSelections
  /\ selections' = selections + 1
  /\ IF dataModel = NoModel
     THEN /\ navActive' = id
          /\ UNCHANGED <<dataModel, activeViewId, currentInstance, instances,
                         summary, chart, downloads, calls>>
     ELSE MountView(id, dataModel[1], FALSE)
  /\ UNCHANGED <<appSource, appLoad, allButApp>>

\* a click on a navigation button: onSelect(id), then setActive(id)
NavSelect(id) ==
  /\ selections < MaxSelections
  /\ selections' = selections + 1
  /\ IF activeViewId = id \/ dataModel = NoModel
     THEN /\ navActive' = id
          /\ UNCHANGED <<dataModel, activeViewId, currentInstance, instances,
                         summary, chart, downloads, calls>>
     ELSE MountView(id, dataModel[1], FALSE)
  /\ UNCHANGED <<appSource, appLoad, allButApp>>

\* a handler of instance i has run
Apply(i, effect) ==
  /\ instances' = [instances EXCEPT ![i] = effect.inst]
  /\ chart' = IF effect.draws
              THEN [owner |-> i, drawn |-> TRUE, drawing |-> effect.drawing]
              ELSE chart
  /\ downloads' =
       IF effect.sets
       THEN [owner |-> i, filename |-> effect.filename, rows |-> <<>>]
       ELSE downloads
  /\ dataModel' = <<[dataModel[1] EXCEPT !.records = effect.records]>>
  /\ UNCHANGED <<appSource, appLoad, activeViewId, currentInstance, summary,
                 navActive, calls, selections, allButApp>>

\* a click on the toggle of the current view
AppToggle ==
  /\ currentInstance # 0
  /\ instances[currentInstance].view # "longrun"
  /\ Apply(currentInstance,
           ToggleView(instances[currentInstance], dataModel[1].records))

\* a click on the share toggle of the beer-strength view
AppToggleShare ==
  /\ currentInstance # 0
  /\ instances[currentInstance].view = "beerstrength"
  /\ Apply(currentInstance,
           ToggleShare(instances[currentInstance], dataModel[1].records))

\* a click on a legend item of the chart
AppLegendClick(key) ==
  /\ currentInstance # 0
  /\ instances[currentInstance].legend
  /\ instances[currentInstance].clicks < MaxLegendClicks
  /\ key \in createView(instances[currentInstance].view).activeKeys
  /\ Apply(currentInstance,
           LegendClick(instances[currentInstance], key, dataModel[1].records))

\* another option of the group select is chosen
AppGroupChange(value) ==
  /\ currentInstance # 0
  /\ value # instances[currentInstance].group
  /\ \/ /\ instances[currentInstance].view = "longrun"
        /\ \E g \in 1..Len(LongRunGroups) : value = LongRunGroups[g]
     \/ /\ instances[currentInstance].view = "seasonality"
        /\ \E g \in 1..Len(dataModel[1].records) :
             value = dataModel[1].records[g].groupLabel
  /\ Apply(currentInstance,
           GroupChange(instances[currentInstance], value, dataModel[1].records))

\* another option of the series select of the seasonality view is chosen
AppSeriesChange(value) ==
  /\ currentInstance # 0
  /\ instances[currentInstance].view = "seasonality"
  /\ value # instances[currentInstance].series
  /\ \E g \in 1..Len(dataModel[1].records) :
       /\ dataModel[1].records[g].groupLabel = instances[currentInstance].group
       /\ value = dataModel[1].records[g].seriesLabel
  /\ Apply(currentInstance,
           SeriesChange(instances[currentInstance], value, dataModel[1].records))

\* a resize event of the window reaches the registered listener: the
\* debounced render is (re)scheduled
AppResize(i) ==
  /\ instances[i].listener
  /\ instances' = [instances EXCEPT ![i].timer = TRUE]
  /\ UNCHANGED <<appSource, appLoad, dataModel, activeViewId, currentInstance,
                 summary, navActive, chart, downloads, calls, selections,
                 allButApp>>

\* the timer fires and render() runs without its test of shell and model, as
\* if the instance still had them
AppTimerFireUnguarded(i) ==
  /\ instances[i].timer
  /\ Apply(i, RenderView([instances[i] EXCEPT !.timer = FALSE, !.shell = TRUE,
                                              !.model = "data"],
                         dataModel[1].records))

\* the timer of a debounced render fires
AppTimerFire(i) ==
  /\ instances[i].timer
  /\ Apply(i, RenderView([instances[i] EXCEPT !.timer = FALSE],
                         dataModel[1].records))

\* the csv hook of the download controls is called
AppExportCsv ==
  /\ downloads.owner # 0
  /\ \E aheadOfUtc \in BOOLEAN :
       downloads' =
         [downloads EXCEPT !.rows =
            ExportRows(instances[downloads.owner], dataModel[1].records,
                       aheadOfUtc)]
  /\ dataModel' = <<[dataModel[1] EXCEPT !.records = RecordsRead(@)]>>
  /\ UNCHANGED <<appSource, appLoad, activeViewId, currentInstance, instances,
                 summary, navActive, chart, calls, selections, allButApp>>

AppNext ==
  \/ LoadFulfil
  \/ LoadReject
  \/ \E v \in 1..Len(ViewIds) : NavSelect(ViewIds[v])
  \/ AppToggle
  \/ AppToggleShare
  \/ \E key \in LongRunKeys \cup CategoryKeys : AppLegendClick(key)
  \/ \E value \in {LongRunGroups[g] : g \in 1..Len(LongRunGroups)}
                    \cup {AppPool[r].groupLabel : r \in 1..Len(AppPool)} :
       AppGroupChange(value)
  \/ \E value \in {AppPool[r].seriesLabel : r \in 1..Len(AppPool)} :
       AppSeriesChange(value)
  \/ \E i \in 1..Len(instances) : AppResize(i)
  \/ \E i \in 1..Len(instances) : AppTimerFire(i)
  \/ AppExportCsv

SpecApp == AppInit /\ [][AppNext]_vars

\* ------------------------------------------------------------------ claims

\* a signed decimal literal, stated on the text alone: an optional sign, then
\* digits with at most one "." among them and at least one digit
IsDecimalLiteral(t) ==
  \E sign \in 0..1 :
    /\ Len(t) > sign
    /\ sign = 1 => t[1] \in {"+", "-"}
    /\ \A i \in (sign + 1)..Len(t) : t[i] \in Digits \cup {"."}
    /\ Cardinality({i \in (sign + 1)..Len(t) : t[i] = "."}) <= 1
    /\ \E i \in (sign + 1)..Len(t) : t[i] \in Digits

\* C3: a Data_value cell that is missing, empty after trimming, the token "..",
\* or not a finite number yields the value null, never 0, and coerceNumber does
\* not throw on any cell.
C3_AbsentCellIsNull ==
  coercePc = "done" =>
    /\ coerced # Threw
    /\ (cell = Undef \/ ~IsDecimalLiteral(Trim(cell))) => coerced = Null
    /\ (cell # Undef /\ Trim(cell) \in {<<>>, <<".", ".">>}) => coerced = Null

\* the cell " .." has been coerced to null
C3_Witness ==
  /\ coercePc = "done"
  /\ cell = <<" ", ".", ".">>
  /\ coerced = Null

RECURSIVE SumOfLengths(_, _)
\* the sum of the bucket lengths of the buckets of map under the keys
SumOfLengths(map, keys) ==
  IF keys = {} THEN 0
  ELSE LET k == CHOOSE x \in keys : TRUE
       IN  Len(map[k]) + SumOfLengths(map, keys \ {k})

\* the keys of the buckets of map that hold the record
BucketsHolding(map, record) ==
  {k \in DOMAIN map : \E j \in 1..Len(map[k]) : map[k][j] = record}

\* C1: buildMeta places every record in exactly one byGroup bucket, the one
\* of its groupKey, and in exactly one bySeries bucket, the one of its
\* seriesKey; the bucket lengths of each index sum to the record count.
C1_EveryRecordInOneBucket ==
  cache = "fulfilled" =>
    /\ SumOfLengths(loaded.byGroup, DOMAIN loaded.byGroup) = Len(loaded.records)
    /\ SumOfLengths(loaded.bySeries, DOMAIN loaded.bySeries) = Len(loaded.records)
    /\ \A i \in 1..Len(loaded.records) :
         /\ BucketsHolding(loaded.byGroup, loaded.records[i])
              = {loaded.records[i].groupKey}
         /\ BucketsHolding(loaded.bySeries, loaded.records[i])
              = {loaded.records[i].seriesKey}

\* three records were indexed into two group buckets, one of them holding
\* records of two group labels with the same key
C1_Witness ==
  /\ cache = "fulfilled"
  /\ Len(loaded.records) = 3
  /\ Cardinality(DOMAIN loaded.byGroup) = 2
  /\ \E k \in DOMAIN loaded.byGroup :
       /\ Len(loaded.byGroup[k]) = 2
       /\ loaded.byGroup[k][1].groupLabel # loaded.byGroup[k][2].groupLabel

IsSortedByDate(records) ==
  \A i \in 1..Len(records) : \A j \in i..Len(records) :
    records[i].date <= records[j].date

\* C2: whatever the order of the rows, the records loadData produces are in
\* ascending date order, and every byGroup and bySeries bucket lists its
\* records in the order of that sorted sequence.
C2_RecordsAndBucketsSorted ==
  cache = "fulfilled" =>
    /\ IsSortedByDate(loaded.records)
    /\ \A k \in DOMAIN loaded.byGroup :
         /\ loaded.byGroup[k]
              = SelectSeq(loaded.records, LAMBDA r : r.groupKey = k)
         /\ IsSortedByDate(loaded.byGroup[k])
    /\ \A k \in DOMAIN loaded.bySeries :
         /\ loaded.bySeries[k]
              = SelectSeq(loaded.records, LAMBDA r : r.seriesKey = k)
         /\ IsSortedByDate(loaded.bySeries[k])

\* a file whose first two rows are in descending date order gave records
\* in ascending date order, both in one group bucket
C2_Witness ==
  /\ cache = "fulfilled"
  /\ Len(csvRows) >= 2
  /\ KeepRecord(NormalizeRow(csvRows[1]))
  /\ KeepRecord(NormalizeRow(csvRows[2]))
  /\ NormalizeRow(csvRows[1]).date > NormalizeRow(csvRows[2]).date
  /\ NormalizeRow(csvRows[1]).groupKey = NormalizeRow(csvRows[2]).groupKey
  /\ Len(loaded.records) >= 2
  /\ loaded.records[1].date < loaded.records[2].date

\* ---- the crossover claims, stated on the input series

\* sample k of series s of the input, and the difference of two series there
SampleOf(s, k) == crossInput[s].values[k]
DiffAt(a, b, k) == RSub(SampleOf(a, k).value, SampleOf(b, k).value)
SignOf(x) == IF x.n < 0 THEN -1 ELSE IF x.n > 0 THEN 1 ELSE 0

\* the samples k - 1 and k are present on both series
FourPresent(a, b, k) ==
  /\ SampleOf(a, k - 1).value # Null /\ SampleOf(a, k).value # Null
  /\ SampleOf(b, k - 1).value # Null /\ SampleOf(b, k).value # Null

OppositeSigns(a, b, k) ==
  \/ SignOf(DiffAt(a, b, k - 1)) = -1 /\ SignOf(DiffAt(a, b, k)) = 1
  \/ SignOf(DiffAt(a, b, k - 1)) = 1 /\ SignOf(DiffAt(a, b, k)) = -1

\* the condition of the claim for an event of the pair at the samples k-1, k
Qualifies(a, b, k) ==
  FourPresent(a, b, k) /\ (DiffAt(a, b, k - 1) = Zero \/ OppositeSigns(a, b, k))

SampleCount == IF crossInput = <<>> THEN 0 ELSE Len(crossInput[1].values)

\* every <<a, b, k>> with a before b and k - 1, k consecutive samples
Triples ==
  {t \in (1..Len(crossInput)) \X (1..Len(crossInput)) \X (2..SampleCount) :
     t[1] < t[2]}

\* the place of a triple in the order pair by pair, sample by sample
TripleRank(t) == (t[1] * (Len(crossInput) + 1) + t[2]) * (SampleCount + 1) + t[3]

RECURSIVE InRankOrder(_)
InRankOrder(set) ==
  IF set = {} THEN <<>>
  ELSE LET first == CHOOSE t \in set : \A u \in set : TripleRank(t) <= TripleRank(u)
       IN  <<first>> \o InRankOrder(set \ {first})

\* the qualifying triples, one per expected event
QualifyingTriples == InRankOrder({t \in Triples : Qualifies(t[1], t[2], t[3])})

\* event e is an event of the pair of triple t between its two samples
EventOf(e, t) ==
  /\ e.labelA = crossInput[t[1]].label
  /\ e.labelB = crossInput[t[2]].label
  /\ SampleOf(t[1], t[3] - 1).date <= e.date
  /\ e.date <= SampleOf(t[1], t[3]).date

\* there is exactly one event per pair and pair of consecutive samples that
\* qualifies, and no other event
EventsAreQualifyingTriples ==
  /\ ~crossOutput.threw
  /\ Len(crossOutput.crossings) = Len(QualifyingTriples)
  /\ \A n \in 1..Len(QualifyingTriples) :
       EventOf(crossOutput.crossings[n], QualifyingTriples[n])

\* the relative order of the pair differs between the samples k - 1 and k
OrderChanges(a, b, k) ==
  FourPresent(a, b, k) /\ SignOf(DiffAt(a, b, k - 1)) # SignOf(DiffAt(a, b, k))

Reported(a, b, k) ==
  \E n \in 1..Len(crossOutput.crossings) :
    EventOf(crossOutput.crossings[n], <<a, b, k>>)

\* the pair becomes equal at sample k and sample k + 1 is missing or absent
\* on one of the two series
EqualityWithoutSuccessor(a, b, k) ==
  /\ DiffAt(a, b, k - 1) # Zero
  /\ DiffAt(a, b, k) = Zero
  /\ \/ k = SampleCount
     \/ SampleOf(a, k + 1).value = Null
     \/ SampleOf(b, k + 1).value = Null

\* C8 as stated: an event exactly for the qualifying pairs and samples, every
\* pair examined once, and so every change of relative order between
\* consecutive samples, exact equality included, is reported.
C8_Original ==
  crossPc = "done" =>
    /\ EventsAreQualifyingTriples
    /\ \A t \in Triples :
         OrderChanges(t[1], t[2], t[3]) => Reported(t[1], t[2], t[3])

\* C8 (amended): findCrossovers emits an event for the pair (A,B) and the
\* samples (i-1,i) exactly when all four samples are present and diff(i-1) is 0
\* or the two differences have opposite signs, each pair being examined once
\* over all samples; a change of relative order is reported unless it is an
\* equality reached at a sample whose successor is missing or absent.
C8_EventIffQualifies ==
  crossPc = "done" =>
    /\ EventsAreQualifyingTriples
    /\ \A t \in Triples :
         (OrderChanges(t[1], t[2], t[3])
            /\ ~EqualityWithoutSuccessor(t[1], t[2], t[3]))
           => Reported(t[1], t[2], t[3])

\* three series gave events for two different pairs, one of them an exact
\* coincidence and one an interpolated crossing
C8_Witness ==
  /\ crossPc = "done"
  /\ Len(crossInput) = 3
  /\ \E m, n \in 1..Len(crossOutput.crossings) :
       /\ crossOutput.crossings[m].labelB # crossOutput.crossings[n].labelB
       /\ \E k \in 1..SampleCount :
            crossOutput.crossings[m].date = SampleOf(1, k).date
       /\ m < n
  /\ \E t \in Triples : OppositeSigns(t[1], t[2], t[3])
  /\ \E t \in Triples : FourPresent(t[1], t[2], t[3]) /\ DiffAt(t[1], t[2], t[3] - 1) = Zero

\* the events of the pair of the series a and b
EventsOfPair(a, b) ==
  SelectSeq(crossOutput.crossings,
            LAMBDA e : e.labelA = crossInput[a].label /\ e.labelB = crossInput[b].label)

\* both series are fully present, strictly ordered one way before sample k,
\* equal at k and strictly ordered the other way after it
CrossesAtSample(a, b, k) ==
  /\ 1 < k /\ k < SampleCount
  /\ \A i \in 1..SampleCount :
       SampleOf(a, i).value # Null /\ SampleOf(b, i).value # Null
  /\ DiffAt(a, b, k) = Zero
  /\ \E sgn \in {-1, 1} :
       /\ \A i \in 1..(k - 1) : SignOf(DiffAt(a, b, i)) = sgn
       /\ \A i \in (k + 1)..SampleCount : SignOf(DiffAt(a, b, i)) = -sgn

\* the series [1,2,3] and [3,2,1] at the times [0,1,2]
EqualityExample ==
  SeriesOf(2, 3, "unit",
           <<<<RInt(1), RInt(2), RInt(3)>>, <<RInt(3), RInt(2), RInt(1)>>>>)

\* C9: two fully present series that are strictly ordered before sample k,
\* equal at k and strictly reverse-ordered after it give exactly one crossover
\* for the pair, at time(k) with the common value; [1,2,3] vs [3,2,1] at the
\* times [0,1,2] gives exactly one crossover, at time 1 with value 2.
C9_OneCrossoverAtEquality ==
  crossPc = "done" =>
    /\ \A t \in Triples :
         CrossesAtSample(t[1], t[2], t[3]) =>
           EventsOfPair(t[1], t[2])
             = <<[date |-> SampleOf(t[1], t[3]).date,
                  labelA |-> crossInput[t[1]].label,
                  labelB |-> crossInput[t[2]].label,
                  value |-> SampleOf(t[1], t[3]).value]>>
    /\ crossInput = EqualityExample =>
         crossOutput.crossings
           = <<[date |-> 1, labelA |-> PerCapitaLabels[1],
                labelB |-> PerCapitaLabels[2], value |-> RInt(2)]>>

\* [1,2,3] vs [3,2,1] has been scanned and one crossover came out
C9_Witness ==
  /\ crossPc = "done"
  /\ crossInput = EqualityExample
  /\ Len(crossOutput.crossings) = 1
  /\ CrossesAtSample(1, 2, 2)

\* ratio = |diff(i-1)| / (|diff(i-1)| + |diff(i)|), from the claim
ClaimRatio(a, b, k) ==
  RDiv(RAbs(DiffAt(a, b, k - 1)),
       RAdd(RAbs(DiffAt(a, b, k - 1)), RAbs(DiffAt(a, b, k))))

\* t(i-1) + (t(i) - t(i-1)) * ratio
ClaimTime(a, b, k) ==
  RAdd(RInt(SampleOf(a, k - 1).date),
       RMul(RInt(SampleOf(a, k).date - SampleOf(a, k - 1).date), ClaimRatio(a, b, k)))

\* S(i-1) + (S(i) - S(i-1)) * ratio for the series s of the pair
ClaimValue(s, a, b, k) ==
  RAdd(SampleOf(s, k - 1).value,
       RMul(RSub(SampleOf(s, k).value, SampleOf(s, k - 1).value), ClaimRatio(a, b, k)))

\* the series [1,3] and [2,2] at the times [0,1]
InterpolationExample ==
  SeriesOf(2, 2, "unit", <<<<RInt(1), RInt(3)>>, <<RInt(2), RInt(2)>>>>)

\* the n-th event is the one of a sign change between nonzero differences
IsInterpolated(n) ==
  LET t == QualifyingTriples[n] IN OppositeSigns(t[1], t[2], t[3])

\* C10 as stated: the crossover of a sign change lies at the time
\* t(i-1) + (t(i) - t(i-1)) * ratio with the value A(i-1) + (A(i) - A(i-1)) * ratio,
\* the same value on series B; [1,3] vs [2,2] at [0,1] gives time 0.5, value 2.
C10_Original ==
  (crossPc = "done" /\ Len(crossOutput.crossings) = Len(QualifyingTriples)) =>
    /\ \A n \in 1..Len(QualifyingTriples) :
         IsInterpolated(n) =>
           LET t == QualifyingTriples[n]
           IN  /\ RInt(crossOutput.crossings[n].date) = ClaimTime(t[1], t[2], t[3])
               /\ crossOutput.crossings[n].value = ClaimValue(t[1], t[1], t[2], t[3])
               /\ crossOutput.crossings[n].value = ClaimValue(t[2], t[1], t[2], t[3])
    /\ crossInput = InterpolationExample =>
         /\ Len(crossOutput.crossings) = 1
         /\ RInt(crossOutput.crossings[1].date) = Rat(1, 2)
         /\ crossOutput.crossings[1].value = RInt(2)

\* C10 (amended): the crossover of a sign change has the value
\* A(i-1) + (A(i) - A(i-1)) * ratio, which is also B(i-1) + (B(i) - B(i-1)) * ratio,
\* and its date is t(i-1) + (t(i) - t(i-1)) * ratio truncated toward zero to a
\* whole millisecond; [1,3] vs [2,2] at the times [0,1] ms gives value 2 at
\* time 0, the truncation of 0.5.
C10_InterpolatedCrossover ==
  (crossPc = "done" /\ Len(crossOutput.crossings) = Len(QualifyingTriples)) =>
    /\ \A n \in 1..Len(QualifyingTriples) :
         IsInterpolated(n) =>
           LET t == QualifyingTriples[n]
           IN  /\ crossOutput.crossings[n].date = Trunc(ClaimTime(t[1], t[2], t[3]))
               /\ crossOutput.crossings[n].value = ClaimValue(t[1], t[1], t[2], t[3])
               /\ crossOutput.crossings[n].value = ClaimValue(t[2], t[1], t[2], t[3])
    /\ crossInput = InterpolationExample =>
         /\ Len(crossOutput.crossings) = 1
         /\ crossOutput.crossings[1].date = 0
         /\ crossOutput.crossings[1].value = RInt(2)

\* [1,3] vs [2,2] has been scanned: one interpolated crossover of value 2
C10_Witness ==
  /\ crossPc = "done"
  /\ crossInput = InterpolationExample
  /\ Len(crossOutput.crossings) = 1
  /\ IsInterpolated(1)
  /\ crossOutput.crossings[1].value = RInt(2)

\* ---- the long-run pivot claims, stated on the records handed to buildSeries

RECURSIVE SumOfShares(_, _)
SumOfShares(shares, keys) ==
  IF keys = {} THEN Zero
  ELSE LET k == CHOOSE x \in keys : TRUE
       IN  RAdd(shares[k], SumOfShares(shares, keys \ {k}))

\* the records of the series at the date among the records handed in
RecordsAt(label, date) ==
  SelectSeq(pivotInput, LAMBDA r : r.seriesLabel = label /\ r.date = date)

HasPresentValue(label, date) ==
  \E i \in 1..Len(RecordsAt(label, date)) : RecordsAt(label, date)[i].value # Null

\* C4: at every time point of the long-run pivot, the member shares sum to
\* exactly 1 if the point's total is nonzero and every member series has a
\* present value at the point, and every share is 0 if the total is zero.
C4_SharesSumToOne ==
  pivotPc = "done" =>
    \A n \in 1..Len(pivotOutput.points) :
      LET point == pivotOutput.points[n]
      IN  /\ (point.total # Zero
               /\ \A l \in 1..Len(LongRunLabels) :
                    HasPresentValue(LongRunLabels[l], point.date))
              => SumOfShares(point.shares, DOMAIN point.shares) = One
          /\ point.total = Zero => \A k \in DOMAIN point.shares : point.shares[k] = Zero

\* C6: in the long-run pivot a series whose records at a time point are all
\* absent has an absent value at that point in the derived series, also when
\* another series is present there.
C6_AbsentStaysAbsent ==
  pivotPc = "done" =>
    \A l \in 1..Len(LongRunLabels) : \A n \in 1..Len(pivotOutput.points) :
      LET date == pivotOutput.points[n].date
      IN  (/\ RecordsAt(LongRunLabels[l], date) # <<>>
           /\ ~HasPresentValue(LongRunLabels[l], date)
           /\ \E o \in 1..Len(LongRunLabels) : HasPresentValue(LongRunLabels[o], date))
            => pivotOutput.series[l].values[n].value = Null

\* ---- the zero-total claim, stated on the cells of prepareCells

\* the sum of the present values of the selected series in the year
RECURSIVE HeatYearSum(_, _, _)
HeatYearSum(records, year, i) ==
  IF i > Len(records) THEN Zero
  ELSE LET record == records[i]
           counted == /\ record.groupLabel = defaultGroup
                      /\ record.seriesLabel = defaultSeries
                      /\ record.year = year
                      /\ record.value # Null
       IN  RAdd(IF counted THEN record.value ELSE Zero,
                HeatYearSum(records, year, i + 1))

\* the selected series has a present value in the year and month
HeatHasValue(records, year, month) ==
  \E i \in 1..Len(records) :
    /\ records[i].groupLabel = defaultGroup
    /\ records[i].seriesLabel = defaultSeries
    /\ records[i].year = year
    /\ records[i].month = month
    /\ records[i].value # Null

\* C5: with 'normalize by year' on, the share of every month that has a value
\* in a year whose total is zero is the number 0, not absent.
C5_ZeroTotalShareIsZero ==
  (heatPc = "done" /\ heatInput.normalize) =>
    \A c \in 1..Len(heatOutput) :
      (/\ HeatYearSum(heatInput.records, heatOutput[c].year, 1) = Zero
       /\ HeatHasValue(heatInput.records, heatOutput[c].year, heatOutput[c].month))
        => heatOutput[c].value = Zero

\* ---- the active-subset claim, stated on the rows the long-run view exports

\* the sum of the present values at the date of the records of the group
\* whose series is active
RECURSIVE ActiveSum(_, _, _, _, _)
ActiveSum(records, group, activeKeys, date, i) ==
  IF i > Len(records) THEN Zero
  ELSE LET record == records[i]
           counted == /\ record.groupLabel = group
                      /\ LongRunKey(record.seriesLabel) \in activeKeys
                      /\ record.date = date
                      /\ record.value # Null
       IN  RAdd(IF counted THEN record.value ELSE Zero,
                ActiveSum(records, group, activeKeys, date, i + 1))

\* C7: after any sequence of legend toggles, the total of every row the
\* long-run view exports is the sum over the active series only: a
\* deactivated series contributes to no exported total.
C7_ExportScopedToActive ==
  [][LongRunExportCsv =>
       \A n \in 1..Len(lrExport') :
         lrExport'[n].total_litres =
           toFixed(ActiveSum(lrData, lrGroup, lrActiveKeys,
                             ensureDate(RInt(lrExport'[n].year), lrExport'[n].month),
                             1), 3)]_vars

\* ---- the smoothing claim, stated on the input values

\* the positions of the trailing window of the 1-based position i
TrailingWindow(i, windowSize) == MaxOf(1, i - windowSize + 1)..i

\* the present values among the positions of the window
PresentIn(window) == {k \in window : smoothInput.values[k].value # Null}

RECURSIVE SumOver(_)
SumOver(positions) ==
  IF positions = {} THEN Zero
  ELSE LET k == CHOOSE x \in positions : TRUE
       IN  RAdd(smoothInput.values[k].value, SumOver(positions \ {k}))

\* the arithmetic mean of the present values of the window, absent if none
TrailingMean(i, windowSize) ==
  LET present == PresentIn(TrailingWindow(i, windowSize))
  IN  IF present = {} THEN Null
      ELSE RDiv(SumOver(present), RInt(Cardinality(present)))

\* C11: for a window size above 1, both smoothing functions return at every
\* index the arithmetic mean of the present values of the trailing window,
\* which is absent exactly when every value of the window is absent; the
\* output has the length and the dates of the input.
C11_TrailingMean ==
  (smoothPc = "done" /\ smoothInput.windowSize > 1) =>
    /\ Len(smoothOutput.points) = Len(smoothInput.values)
    /\ Len(smoothOutput.numbers) = Len(smoothInput.values)
    /\ \A i \in 1..Len(smoothInput.values) :
         LET mean == TrailingMean(i, smoothInput.windowSize)
         IN  /\ smoothOutput.points[i].date = smoothInput.values[i].date
             /\ smoothOutput.points[i].value = mean
             /\ smoothOutput.numbers[i] = mean
             /\ (mean = Null) <=>
                  PresentIn(TrailingWindow(i, smoothInput.windowSize)) = {}

\* a series longer than the window, with a window of absent values only and
\* a later window that holds absent and present values, has been smoothed
C11_Witness ==
  /\ smoothPc = "done"
  /\ smoothInput.windowSize = SMOOTH_WINDOW
  /\ Len(smoothInput.values) > SMOOTH_WINDOW
  /\ smoothOutput.points[1].value = Null
  /\ smoothInput.values[2].value = RInt(2)
  /\ smoothInput.values[3].value = Null
  /\ smoothInput.values[Len(smoothInput.values)].value = Null
  /\ smoothOutput.numbers[Len(smoothInput.values)] = RInt(2)

\* ---- the ratio claim, stated on the records handed to preparePoints

\* the operand of the period in the unit: the value of the last record of
\* the spirits series with the period and the unit, absent if there is none
RECURSIVE OperandOf(_, _, _)
OperandOf(period, units, i) ==
  IF i = 0 THEN Null
  ELSE LET record == spiritsInput[i]
       IN  IF /\ record.groupLabel = SpiritsGroup
              /\ record.seriesLabel = SpiritsSeries
              /\ record.period = period
              /\ record.units = units
           THEN record.value
           ELSE OperandOf(period, units, i - 1)

\* C12: the ratio of every period of the spirits check is litres / proof
\* when both operands are present and proof is not 0, and absent otherwise;
\* no ratio is the outcome of a division by zero.
C12_RatioOrAbsent ==
  spiritsPc \in {"done", "exported"} =>
    \A n \in 1..Len(spiritsOutput) :
      LET point == spiritsOutput[n]
          litres == OperandOf(point.period, "Litres", Len(spiritsInput))
          proof == OperandOf(point.period, "ProofL", Len(spiritsInput))
      IN  /\ point.litres = litres
          /\ point.proof = proof
          /\ point.ratio =
               IF litres # Null /\ proof # Null /\ proof # Zero
               THEN RDiv(litres, proof) ELSE Null
          /\ point.ratio = Null \/ IsFinite(point.ratio)

\* preparePoints has returned two periods, one of them with present litres
\* and a proof of 0
C12_Witness ==
  /\ spiritsPc \in {"done", "exported"}
  /\ Len(spiritsOutput) = 2
  /\ \E n \in 1..Len(spiritsOutput) :
       /\ spiritsOutput[n].litres = RInt(1)
       /\ spiritsOutput[n].proof = Zero
       /\ spiritsOutput[n].ratio = Null

\* ---- the bucket claims, stated on the records handed to aggregateRecords

\* the records aggregateRecords counts: of the group, of a category whose
\* key is active, with a present value
IsCounted(record) ==
  /\ record.groupLabel = BeerGroup
  /\ IsCategory(record.seriesLabel)
  /\ CategoryKey(record.seriesLabel) \in barsInput.activeKeys
  /\ record.value # Null

CountedRecords == {i \in 1..Len(barsInput.records) : IsCounted(barsInput.records[i])}

\* the bucket of a year: its decade in decade mode, the year itself otherwise
BucketOfYear(year) == IF barsInput.byDecade THEN (year \div 10) * 10 ELSE year

Buckets == {BucketOfYear(barsInput.records[i].year) : i \in CountedRecords}

\* the label the claim gives to a bucket
BucketLabel(bucket) ==
  IF barsInput.byDecade
  THEN DigitsOf(bucket) \o <<"-">> \o DigitsOf(bucket + 9)
  ELSE DigitsOf(bucket)

\* the sum of the values of the counted records among the positions
RECURSIVE SumOfRecords(_)
SumOfRecords(positions) ==
  IF positions = {} THEN Zero
  ELSE LET i == CHOOSE x \in positions : TRUE
       IN  RAdd(barsInput.records[i].value, SumOfRecords(positions \ {i}))

InBucket(bucket) ==
  {i \in CountedRecords : BucketOfYear(barsInput.records[i].year) = bucket}

InBucketOfKey(bucket, key) ==
  {i \in InBucket(bucket) : CategoryKey(barsInput.records[i].seriesLabel) = key}

\* the bars with the label of the bucket
BarsOfBucket(bucket) ==
  {n \in 1..Len(barsOutput) : barsOutput[n].label = BucketLabel(bucket)}

IsFourQuartersExample ==
  /\ barsInput.byDecade
  /\ barsInput.share
  /\ \E year \in {2000, 2009}, c \in 1..Len(CATEGORY_LABELS) :
       /\ barsInput.records = FourQuarters(year, CATEGORY_LABELS[c])
       /\ barsInput.activeKeys = {CategoryKey(CATEGORY_LABELS[c])}

\* C14: decade-bucketed share aggregation of the four quarters of one year of
\* a single active category with the values 10, 20, 30, 40 yields exactly one
\* bucket, with total 100 and share 1 for the category.
C14_FourQuartersExample ==
  (barsPc = "done" /\ IsFourQuartersExample) =>
    /\ Len(barsOutput) = 1
    /\ barsOutput[1].total = RInt(100)
    /\ \A key \in barsInput.activeKeys : barsOutput[1].values[key] = One

\* ---- the rounding claim, stated on the rows the spirits check exports

\* the number has at most the given count of decimal digits
HasDecimals(x, digits) == (x.n * Pow10(digits)) % x.d = 0

\* x rounded to the given count of decimal digits: the multiple of
\* 10^-digits next to x
IsRounded(rounded, x, digits) ==
  /\ HasDecimals(rounded, digits)
  /\ ~RLess(Rat(1, 2 * Pow10(digits)), RAbs(RSub(rounded, x)))

\* C15: the rows the spirits check exports hold the volumes (litres, proof)
\* rounded to 3 decimal digits and the ratio rounded to 4 decimal digits,
\* and an absent value is exported as absent.
C15_ExportRounding ==
  spiritsPc = "exported" =>
    /\ Len(spiritsExport) = Len(spiritsOutput)
    /\ \A n \in 1..Len(spiritsExport) :
         LET point == spiritsOutput[n]
             row == spiritsExport[n]
         IN  /\ IF point.litres = Null THEN row.litres = Null
                ELSE IsRounded(row.litres, point.litres, 3)
             /\ IF point.proof = Null THEN row.proof = Null
                ELSE IsRounded(row.proof, point.proof, 3)
             /\ IF point.ratio = Null THEN row.ratio = Null
                ELSE IsRounded(row.ratio, point.ratio, 4)

\* ---- the load-once claim

\* C16: across the loadData() calls, also those made while the load is
\* pending, the CSV is fetched and the DataModel built at most once, and
\* every call returns the promise of that one fetch, hence the same model.
C16_LoadedOnce ==
  /\ fetchCount <= 1
  /\ buildCount <= 1
  /\ loadCalls > 0 => fetchCount = 1
  /\ \A i \in 1..Len(received) : received[i].promise = 1
  /\ cache = "fulfilled" => loaded = BuildModel(csvRows)

\* loadData() was called before the load, while it was pending and after it
\* had succeeded, on a file with records
C16_Witness ==
  /\ cache = "fulfilled"
  /\ Len(loaded.records) > 0
  /\ Len(received) = 3
  /\ received[1].found = "null"
  /\ received[2].found = "pending"
  /\ received[3].found = "fulfilled"

\* C20: once destroy() of a view instance has run, its resize listener of the
\* window is no longer registered and no timer of its debounced render is
\* pending
C20_DestroyClearsTimers ==
  lrPhase = "destroyed" => (~lrListener /\ ~lrTimer)

\* ---- the application claims, stated on the variables of main.ts

C18_FailedLoadMountsNothing ==
  /\ appLoad = "rejected" => (summary = FailedToLoad /\ dataModel = NoModel)
  /\ appLoad \in {"pending", "rejected"} =>
       (currentInstance = 0 /\ instances = <<>> /\ calls = <<>>)

\* the load has failed and another view than the first was selected since
C18_Witness ==
  /\ appLoad = "rejected"
  /\ selections > 0
  /\ navActive # ViewIds[1]

\* the number of calls of an operation on an instance
CallsOf(op, i) ==
  Cardinality({k \in 1..Len(calls) : calls[k] = [op |-> op, instance |-> i]})

\* init was called on the instance and destroy was not
IsLive(i) == CallsOf("init", i) > 0 /\ CallsOf("destroy", i) = 0

\* the lifecycle after a successful load, in every state
LifecycleHolds ==
  appLoad = "fulfilled" =>
    /\ currentInstance = Len(instances) /\ currentInstance > 0
    /\ \A i \in 1..Len(instances) :
         /\ IsLive(i) <=> i = currentInstance
         /\ CallsOf("init", i) = 1
         /\ CallsOf("destroy", i) = (IF i = currentInstance THEN 0 ELSE 1)
         /\ i # currentInstance =>
              (~instances[i].shell /\ ~instances[i].listener)
    /\ \A k \in 1..Len(calls) :
         (calls[k].op = "init" /\ calls[k].instance > 1) =>
           (k > 1 /\ calls[k - 1] = [op |-> "destroy",
                                     instance |-> calls[k].instance - 1])
    /\ activeViewId = instances[currentInstance].view

\* a click on the navigation button of the active view, after the load
SelectsActiveView ==
  /\ appLoad = "fulfilled"
  /\ selections' = selections + 1
  /\ navActive' = activeViewId

\* C19: after a successful load at most one instance is live; each mount
\* destroys the previous instance exactly once, immediately before the init
\* of the new one; activeViewId is the view of currentInstance; a click on
\* the button of the active view calls neither destroy nor init.
C19_OneLiveInstance ==
  /\ []LifecycleHolds
  /\ [][SelectsActiveView =>
         (calls' = calls /\ instances' = instances
            /\ currentInstance' = currentInstance)]_vars

\* two other views were mounted after the first, each mount destroying the
\* instance before it
C19_Witness ==
  /\ appLoad = "fulfilled"
  /\ Len(instances) = 3
  /\ CallsOf("destroy", 1) = 1 /\ CallsOf("destroy", 2) = 1
  /\ instances[1].view # instances[2].view

\* C21: init of each of the five views on a loaded model runs to completion:
\* the instance that was mounted has its shell, its download hooks are in the
\* page and its resize listener is registered.
C21_InitCompletes ==
  currentInstance # 0 =>
    /\ instances[currentInstance].shell
    /\ instances[currentInstance].listener
    /\ downloads.owner = currentInstance

\* ---- the loader claims of the later sections

\* a text of white space only, the empty text included
IsBlank(text) == \A i \in 1..Len(text) : text[i] \in WhiteSpace

\* the series label a raw row resolves to
ResolvedLabel(row) ==
  IF row.Series_title_1 = Undef THEN UnknownSeries ELSE row.Series_title_1

\* the rows of the file whose resolved series label is not blank
RowsKept == {i \in 1..Len(csvRows) : ~IsBlank(ResolvedLabel(csvRows[i]))}

\* C22: a raw row is in the model exactly when its resolved series label is
\* not blank: the records are the normalized kept rows, one record per kept
\* row, and no index bucket, metadata entry or domain value comes from a row
\* that was dropped.
C22_BlankLabelsDropped ==
  cache = "fulfilled" =>
    /\ Len(loaded.records) = Cardinality(RowsKept)
    /\ \A i \in RowsKept :
         Cardinality({k \in 1..Len(loaded.records) :
                        loaded.records[k] = NormalizeRow(csvRows[i])})
           = Cardinality({j \in RowsKept :
                            NormalizeRow(csvRows[j]) = NormalizeRow(csvRows[i])})
    /\ \A k \in 1..Len(loaded.records) : ~IsBlank(loaded.records[k].seriesLabel)
    /\ \A key \in DOMAIN loaded.byGroup :
         \A n \in 1..Len(loaded.byGroup[key]) :
           ~IsBlank(loaded.byGroup[key][n].seriesLabel)
    /\ \A key \in DOMAIN loaded.bySeries :
         \A n \in 1..Len(loaded.bySeries[key]) :
           ~IsBlank(loaded.bySeries[key][n].seriesLabel)
    /\ \A meta \in loaded.series : ~IsBlank(meta.label)
    /\ {g.key : g \in loaded.groups}
         = {NormalizeRow(csvRows[i]).groupKey : i \in RowsKept}
    /\ loaded.years = {NormalizeRow(csvRows[i]).year : i \in RowsKept}
    /\ loaded.months = {NormalizeRow(csvRows[i]).month : i \in RowsKept}

\* a file with a white-space label row, an empty label row and a row that
\* was kept was loaded; the month of the white-space row is no month of the
\* model
C22_Witness ==
  /\ cache = "fulfilled"
  /\ Len(loaded.records) = 1
  /\ \E i, j \in 1..Len(csvRows) :
       /\ csvRows[i].Series_title_1 = <<" ">>
       /\ csvRows[j].Series_title_1 = <<>>
       /\ NormalizeRow(csvRows[i]).month \notin loaded.months

\* the maximal runs of letters and digits of a label, in lower case
RECURSIVE WordsFrom(_, _, _)
WordsFrom(label, i, word) ==
  IF i > Len(label) THEN (IF word = <<>> THEN <<>> ELSE <<word>>)
  ELSE IF label[i] \in Lowers \cup Uppers \cup Digits
       THEN WordsFrom(label, i + 1, Append(word, LowerOf(label[i])))
       ELSE (IF word = <<>> THEN <<>> ELSE <<word>>)
              \o WordsFrom(label, i + 1, <<>>)

Words(label) == WordsFrom(label, 1, <<>>)

\* lower-case letters, digits and single hyphens, no hyphen at either end
IsSlug(text) ==
  /\ \A i \in 1..Len(text) : text[i] \in Lowers \cup Digits \cup {"-"}
  /\ \A i \in 1..Len(text) - 1 : ~(text[i] = "-" /\ text[i + 1] = "-")
  /\ text # <<>> => (text[1] # "-" /\ text[Len(text)] # "-")

\* C23: slugify is idempotent; a slug consists of lower-case letters, digits
\* and single hyphens and neither starts nor ends with a hyphen; two labels
\* get the same slug exactly when they have the same lower-cased runs of
\* letters and digits in the same order.
C23_SlugifyNormalizes ==
  /\ slugPc \in {"slugged", "again"} =>
       /\ IsSlug(slugs[1]) /\ IsSlug(slugs[2])
       /\ (slugs[1] = slugs[2]) <=> (Words(slugLabels[1]) = Words(slugLabels[2]))
  /\ slugPc = "again" => reslugs = slugs

\* two labels that differ in case and in their outer separators were given
\* the same slug, and the slugs were slugified again
C23_Witness ==
  /\ slugPc = "again"
  /\ slugLabels[1] = <<" ", "A", "-">>
  /\ slugLabels[2] = <<"a">>
  /\ slugs[1] = slugs[2]
  /\ slugs[1] = <<"a">>

\* the cell of the first alias column the row has, in the order 'Unnamed: 1',
\* '', 'Month', 'Month_code'; Undef when it has none of them
FirstAliasCell(row) ==
  IF row.Unnamed1 # Undef THEN row.Unnamed1
  ELSE IF row.Blank # Undef THEN row.Blank
  ELSE IF row.Month # Undef THEN row.Month
  ELSE row.Month_code

\* the month a token of three characters stands for, 12 when it stands for none
MonthOfToken(token) ==
  IF token = Mar THEN 3
  ELSE IF token = <<"J", "u", "n">> THEN 6
  ELSE IF token = Sep THEN 9
  ELSE 12

\* C24 as stated: the first three characters of the cell of the first present
\* alias column are mapped, a missing or unmapped token gives 12.
C24_FirstThreeCharacters ==
  monthPc = "done" =>
    /\ monthOut \in {3, 6, 9, 12}
    /\ monthOut = IF FirstAliasCell(monthRow) = Undef THEN 12
                  ELSE MonthOfToken(Slice3(FirstAliasCell(monthRow)))

\* C24: the derived month is one of 3, 6, 9 and 12: the cell of the first
\* present alias column is trimmed of white space, the first three characters
\* of what is left are mapped by Mar 3, Jun 6, Sep 9, Dec 12, and a missing,
\* empty or unmapped token gives 12.
C24_TrimmedFirstThree ==
  monthPc = "done" =>
    /\ monthOut \in {3, 6, 9, 12}
    /\ monthOut = IF FirstAliasCell(monthRow) = Undef THEN 12
                  ELSE MonthOfToken(Slice3(Trim(FirstAliasCell(monthRow))))

\* the row has no 'Unnamed: 1' column, its '' column holds a month name after
\* white space and its 'Month' column another month: the month is March
C24_Witness ==
  /\ monthPc = "done"
  /\ monthRow.Unnamed1 = Undef
  /\ monthRow.Blank = <<" ", "M", "a", "r">>
  /\ monthRow.Month = Sep
  /\ monthOut = 3

\* ---- debounce

\* the runs of the wrapped function that the timer of call k led to
RunsOfCall(k) == {r \in 1..Len(dbRuns) : dbRuns[r].of = k}

\* call k is followed by a call less than the delay later
Superseded(k) ==
  k < Len(dbCalls) /\ dbCalls[k + 1].at < dbCalls[k].at + DebounceDelay

\* the delay after call k has passed without another call
Settled(k) ==
  IF k < Len(dbCalls) THEN dbCalls[k + 1].at > dbCalls[k].at + DebounceDelay
  ELSE dbNow > dbCalls[k].at + DebounceDelay

\* C25: of calls that each arrive less than the delay after the one before,
\* only the last one leads to a run of the wrapped function: one run, the
\* delay after that call and with its arguments. Every run is the run of
\* some call, so a call after a run leads to a run of its own.
C25_DebounceCoalesces ==
  /\ \A r \in 1..Len(dbRuns) :
       /\ dbRuns[r].of \in 1..Len(dbCalls)
       /\ dbRuns[r].at = dbCalls[dbRuns[r].of].at + DebounceDelay
       /\ dbRuns[r].args = dbCalls[dbRuns[r].of].args
  /\ \A k \in 1..Len(dbCalls) :
       /\ Cardinality(RunsOfCall(k)) <= 1
       /\ Superseded(k) => RunsOfCall(k) = {}
       /\ Settled(k) => Cardinality(RunsOfCall(k)) = 1

\* two calls less than the delay apart led to one run, with the arguments of
\* the second; a third call after that run led to a run of its own
C25_Witness ==
  /\ Len(dbCalls) = 3
  /\ Len(dbRuns) = 2
  /\ dbCalls[1].args = "first"
  /\ dbCalls[2].args = "second"
  /\ dbCalls[2].at = dbCalls[1].at + 1
  /\ dbRuns[1] = [at |-> dbCalls[2].at + DebounceDelay, args |-> "second", of |-> 2]
  /\ dbCalls[3].at > dbRuns[1].at
  /\ dbRuns[2].of = 3

\* ---- the views of the application

\* instance i was destroyed while the timer of its debounced render was
\* pending
LateTimer(i) ==
  /\ i # currentInstance
  /\ instances[i].timer
  /\ ~instances[i].shell

\* the step in which the late timer of instance i fires
LateRender(i) ==
  /\ i \in 1..Len(instances)
  /\ LateTimer(i)
  /\ ~instances'[i].timer

\* C26: the debounced render of a destroyed instance, when its timer fires,
\* computes and caches nothing, draws nothing into the chart of the view that
\* is mounted now, and leaves the download hooks, the model and every other
\* instance as they are.
C26_LateRenderIsInert ==
  [][\A i \in 1..Len(instances) :
       LateRender(i) =>
         /\ instances' = [instances EXCEPT ![i].timer = FALSE]
         /\ instances'[i].cached = <<>>
         /\ chart' = chart
         /\ downloads' = downloads
         /\ dataModel' = dataModel
         /\ currentInstance' = currentInstance]_vars

\* an instance of the per-capita view was destroyed with its timer pending;
\* the view mounted after it, the spirits check, has drawn its chart
C26_Witness ==
  \E i \in 1..Len(instances) :
    /\ LateTimer(i)
    /\ instances[i].view = "percapita"
    /\ currentInstance # 0
    /\ instances[currentInstance].view = "spiritscheck"
    /\ chart.owner = currentInstance
    /\ chart.drawn

\* the keys of the legend items of a view
LegendKeys(view) == createView(view).activeKeys

\* C27: in the long-run and the beer-strength view the active keys are, after
\* any clicks on legend items, a non-empty subset of the keys of the legend;
\* a click on the only active key leaves it active, a click on another active
\* key removes it, a click on an inactive key adds it; destroy() makes every
\* key active again.
C27_ActiveKeysNeverEmpty ==
  /\ [](/\ lgInst.activeKeys # {}
        /\ lgInst.activeKeys \subseteq LegendKeys(lgInst.view))
  /\ [][lgInst'.clicks = lgInst.clicks + 1
          => lgInst'.activeKeys =
               IF lgClicked' \notin lgInst.activeKeys
               THEN lgInst.activeKeys \cup {lgClicked'}
               ELSE IF lgInst.activeKeys = {lgClicked'} THEN lgInst.activeKeys
               ELSE lgInst.activeKeys \ {lgClicked'}]_vars
  /\ [][(lgInst.shell /\ ~lgInst'.shell)
          => lgInst'.activeKeys = LegendKeys(lgInst.view)]_vars

\* the beer-strength view was down to one active key after four clicks, and
\* the fifth or the sixth click was a click on that key
C27_Witness ==
  /\ lgInst.view = "beerstrength"
  /\ lgInst.clicks = 6
  /\ lgInst.activeKeys = {lgClicked}

\* the series have the same number of samples and the same date at each index
SeriesAligned(series) ==
  \A s, t \in 1..Len(series) :
    /\ Len(series[s].values) = Len(series[t].values)
    /\ \A k \in 1..Len(series[s].values) :
         k <= Len(series[t].values)
           => series[s].values[k].date = series[t].values[k].date

\* C28: the three per-head series the per-capita view builds from the records
\* of the model, raw or smoothed, have equal length and the same date at each
\* index, and findCrossovers ends without a fault on them.
C28_SeriesAligned ==
  /\ \A i \in 1..Len(instances) :
       instances[i].view = "percapita" => SeriesAligned(instances[i].cached)
  /\ dataModel # NoModel =>
       \A smoothed \in BOOLEAN :
         ~PerCapitaBuild(dataModel[1].records, smoothed).threw

\* C29: while the seasonality view is mounted on a model with a record, its
\* selected group is the group label of a record of the model and its
\* selected series is the series label of a record of that group, whatever
\* group changes, series changes and normalize toggles there were.
C29_SelectionInModel ==
  (/\ currentInstance # 0
   /\ instances[currentInstance].view = "seasonality"
   /\ Len(dataModel[1].records) >= 1)
    => \E r \in 1..Len(dataModel[1].records) :
         /\ dataModel[1].records[r].groupLabel = instances[currentInstance].group
         /\ dataModel[1].records[r].seriesLabel = instances[currentInstance].series

\* the model has the default group and another one; the other group was
\* selected, its first series with it, and normalize was switched on
C29_Witness ==
  /\ currentInstance # 0
  /\ instances[currentInstance].view = "seasonality"
  /\ \E r \in 1..Len(dataModel[1].records) :
       dataModel[1].records[r].groupLabel = defaultGroup
  /\ instances[currentInstance].group = SpiritsGroup
  /\ instances[currentInstance].series = SpiritsSeries
  /\ instances[currentInstance].flagA

\* ---- the smoothing toggles

\* the last part of the file name of the download hooks says what the toggle
\* is set to
FilenameTellsToggle ==
  tgFilename[Len(tgFilename)] =
    IF ~tgInst.flagA THEN "raw"
    ELSE IF tgInst.view = "percapita" THEN "smoothed" ELSE "smooth"

\* the rows exported by the per-capita view and its chart hold the values of
\* the per-head series, smoothed over 4 quarters exactly when the toggle is on
PerCapitaExportReflects ==
  LET raw == collectSeries(tgRecords)
      shown == [s \in 1..Len(raw) |->
                  IF tgInst.flagA THEN smoothValues(raw[s].values, SMOOTH_WINDOW)
                  ELSE raw[s].values]
  IN  /\ \A k \in 1..Len(tgRows[1]) : \A s \in 1..Len(raw) :
           k <= Len(shown[s])
             => tgRows[1][k].values[s] = FixedOrNull(shown[s][k].value, 3)
      /\ tgChart # <<>> =>
           \A s \in 1..Len(raw) : tgChart[1][s].values = shown[s]

\* the rows exported by the spirits check and its chart hold the ratios of
\* the periods, smoothed over 4 quarters exactly when the toggle is on
SpiritsExportReflects ==
  LET points == preparePoints(tgRecords)
      ratios == [n \in 1..Len(points) |-> points[n].ratio]
      shown == IF tgInst.flagA THEN smoothSeries(ratios, SMOOTH_WINDOW) ELSE ratios
  IN  /\ Len(tgRows[1]) = Len(points)
      /\ \A n \in 1..Len(points) : tgRows[1][n].ratio = FixedOrNull(shown[n], 3)
      /\ tgChart # <<>> => tgChart[1].ratios = shown

\* C30: in the per-capita view and the spirits check the exported rows go
\* with the toggle: with smoothing on the file name ends in 'smoothed' or
\* 'smooth' and the exported values are the 4-quarter smoothed values the
\* chart shows, with smoothing off the name ends in 'raw' and they are the
\* raw values.
C30_ExportReflectsToggle ==
  tgRows # <<>> =>
    /\ FilenameTellsToggle
    /\ tgInst.view = "percapita" => PerCapitaExportReflects
    /\ tgInst.view = "spiritscheck" => SpiritsExportReflects

====
